---------------------------- MODULE Spec2Model ----------------------------
(***************************************************************************)
(* Symmetry-reduction and verification pipeline of DCN-Oblivious-Routing:  *)
(* Topology (orbit reduction), Optimization (reduced LP and routing        *)
(* reconstruction), Verification (worst-case link load) and                *)
(* SolutionGrouping, with the file checkpoints they read and write.        *)
(***************************************************************************)
EXTENDS Integers, Sequences, FiniteSets, TLC

(***************************************************************************)
(* Bounds of the model.                                                    *)
(***************************************************************************)
\* largest number of generators the automorphism search may return
MaxGens == 2
\* number of times the program is started on the same directories
MaxRuns == 2
\* flows are multiples of 1/Scale of the unit demand
Scale == 2

None == -1

(***************************************************************************)
(* Tuples, their order (Python's tuple comparison) and list.sort().        *)
(***************************************************************************)
RECURSIVE LexLess(_, _)
LexLess(a, b) ==
    IF Len(a) = 0 THEN Len(b) > 0
    ELSE IF Len(b) = 0 THEN FALSE
    ELSE IF Head(a) # Head(b) THEN Head(a) < Head(b)
    ELSE LexLess(Tail(a), Tail(b))

MinTuple(S) == CHOOSE x \in S : \A y \in S : x = y \/ LexLess(x, y)

\* a list in descending order (C20 must tell it apart)
RECURSIVE SortedListDescending(_)
SortedListDescending(S) ==
    IF S = {} THEN << >>
    ELSE LET m == MinTuple(S) IN SortedListDescending(S \ {m}) \o << m >>

RECURSIVE SortedList(_)
SortedList(S) ==
    IF S = {} THEN << >>
    ELSE LET m == MinTuple(S) IN << m >> \o SortedList(S \ {m})

Range(f) == { f[x] : x \in DOMAIN f }

Max(S) == CHOOSE x \in S : \A y \in S : y <= x

(***************************************************************************)
(* Input graphs (network_generator.py): N nodes 0..N-1, numServer and      *)
(* routing per node, capacity per undirected edge.                         *)
(***************************************************************************)
ZeroBased(seq) == [n \in 0..(Len(seq) - 1) |-> seq[n + 1]]

MkGraph(ns, rt, es, cp) ==
    [N |-> Len(ns), numServer |-> ZeroBased(ns), routing |-> ZeroBased(rt),
     edges |-> es, capacity |-> cp]

Ones(n) == [k \in 1..n |-> 1]
Trues(n) == [k \in 1..n |-> TRUE]

\* generateRing with numServerPerToR = 1, linkCapacity = 1 (numToR >= 3)
generateRing(numToR) ==
    LET E == { << tr, (tr + 1) % numToR >> : tr \in 0..(numToR - 1) }
    IN  MkGraph(Ones(numToR), Trues(numToR), E, [e \in E |-> 1])

\* generateClique with numServerPerToR = 1, linkCapacity = 1
generateClique(numToR) ==
    LET E == { e \in (0..(numToR - 1)) \X (0..(numToR - 1)) : e[1] < e[2] }
    IN  MkGraph(Ones(numToR), Trues(numToR), E, [e \in E |-> 1])

\* generateGrid2D with numServerPerToR = 1, linkCapacity = 1
generateGrid2D(numRow, numCol) ==
    LET nodeid(r, c) == c + r * numCol
        E == { << nodeid(r, c), nodeid(r, c + 1) >> :
                 r \in 0..(numRow - 1), c \in 0..(numCol - 2) }
             \cup { << nodeid(r, c), nodeid(r + 1, c) >> :
                      r \in 0..(numRow - 2), c \in 0..(numCol - 1) }
    IN  MkGraph(Ones(numRow * numCol), Trues(numRow * numCol), E, [e \in E |-> 1])

\* generate2LevelClos cut down to two lower switches (0, 1: one server each)
\* under two upper switches (2, 3: no server)
generate2LevelClos ==
    LET E == { << 0, 2 >>, << 0, 3 >>, << 1, 2 >>, << 1, 3 >> }
    IN  MkGraph(<< 1, 1, 0, 0 >>, Trues(4), E, [e \in E |-> 1])

\* one group of generateMixedNodes: a server that cannot route (0), and two
\* routing nodes with 1 and 2 servers; the inter-group edges need two groups
generateMixedNodes ==
    LET E == { << 0, 1 >>, << 0, 2 >>, << 1, 2 >> }
    IN  MkGraph(<< 1, 1, 2 >>, << FALSE, TRUE, TRUE >>, E, [e \in E |-> 1])

\* two servers on one link and a switch without servers hanging off node 0
PendantSwitch ==
    LET E == { << 0, 1 >>, << 0, 2 >> }
    IN  MkGraph(<< 1, 1, 0 >>, Trues(3), E, [e \in E |-> 1])

\* two servers on a link of capacity 2 and two switches without servers
\* hanging off node 0 on links of capacity 1
TwoPendantSwitches ==
    LET E == { << 0, 1 >>, << 0, 2 >>, << 0, 3 >> }
    IN  MkGraph(<< 1, 1, 0, 0 >>, Trues(4), E,
                [e \in E |-> IF e = << 0, 1 >> THEN 2 ELSE 1])

Graph(name) ==
    CASE name = "Ring4" -> generateRing(4)
      [] name = "Ring3" -> generateRing(3)
      [] name = "Clique3" -> generateClique(3)
      [] name = "Clique4" -> generateClique(4)
      [] name = "Clos" -> generate2LevelClos
      [] name = "Mixed" -> generateMixedNodes
      [] name = "Pendant" -> PendantSwitch
      [] name = "Grid1x3" -> generateGrid2D(1, 3)
      [] name = "Pendants" -> TwoPendantSwitches

(***************************************************************************)
(* The graph model derived in setUGraph.                                   *)
(***************************************************************************)
AllNodes(G) == 0..(G.N - 1)
RouteNodes(G) == { n \in AllNodes(G) : G.routing[n] = TRUE }
NonRouteNodes(G) == { n \in AllNodes(G) : G.routing[n] = FALSE }
HostNodes(G) == { n \in AllNodes(G) : G.numServer[n] > 0 }
Commodities(G) == { sd \in HostNodes(G) \X HostNodes(G) : sd[1] # sd[2] }
ULinks(G) == G.edges
DLinks(G) == ULinks(G) \cup { << e[2], e[1] >> : e \in ULinks(G) }
Neighbors(G, n) == { h \in AllNodes(G) : << n, h >> \in DLinks(G) }
\* UG.get_edge_data(i, j)['capacity'] of an undirected graph
Capacity(G, link) ==
    IF link \in G.edges THEN G.capacity[link]
    ELSE G.capacity[<< link[2], link[1] >>]

(***************************************************************************)
(* Automorphisms and what the external generator search returns.           *)
(***************************************************************************)
involve(node, autmap) == autmap[node] # node

applyGenerator(nodes, autmap) == [k \in DOMAIN nodes |-> autmap[nodes[k]]]

Identity(n) == [k \in 0..(n - 1) |-> k]

NodePermutations(n) ==
    { p \in [0..(n - 1) -> 0..(n - 1)] :
        \A i, j \in 0..(n - 1) : i # j => p[i] # p[j] }

\* a permutation that keeps the node colours (routing, numServer) and the
\* edges with their capacity colours
IsAutomorphism(G, p) ==
    /\ \A n \in AllNodes(G) :
          /\ G.routing[p[n]] = G.routing[n]
          /\ G.numServer[p[n]] = G.numServer[n]
    /\ \A i, j \in AllNodes(G) :
          (<< i, j >> \in DLinks(G)) <=> (<< p[i], p[j] >> \in DLinks(G))
    /\ \A l \in DLinks(G) : Capacity(G, applyGenerator(l, p)) = Capacity(G, l)

AutGroup(G) == { p \in NodePermutations(G.N) : IsAutomorphism(G, p) }

RECURSIVE Generated(_, _)
Generated(gens, acc) ==
    LET more == acc \cup { applyGenerator(a, g) : a \in acc, g \in gens }
    IN  IF more = acc THEN acc ELSE Generated(gens, more)

\* pynauty.autgrp: some set of non-identity automorphisms that generates the
\* whole automorphism group
GeneratorSets(G) ==
    { S \in SUBSET (AutGroup(G) \ { Identity(G.N) }) :
        /\ Cardinality(S) <= MaxGens
        /\ Generated(S, { Identity(G.N) }) = AutGroup(G) }

\* the orders in which a Python set of generators may be iterated
RECURSIVE Orders(_)
Orders(S) ==
    IF S = {} THEN { << >> }
    ELSE UNION { { << g >> \o o : o \in Orders(S \ {g}) } : g \in S }

(***************************************************************************)
(* State.                                                                  *)
(***************************************************************************)
VARIABLES
    pc,                \* where the running program is
    run,               \* number of program starts so far
    ugraph,            \* name of the input graph handed to this run
    \* the Topology object
    UG, Autgen, RepCommodities, RepCommFlowLinks, RepAuxiliarys, RepLinkConstrs,
    \* locals of the orbit traversals
    cand, ci, tovisit, visited, reps, autgrp, flowlinkmap, pending, task,
    \* files under Precomputation/<toponame>
    stageData,         \* stage name -> pickled stage data
    stageWrites,       \* stage name -> number of times the file was written
    commGroup,         \* repsd -> <s>_<d>_CommodityGroup
    mapFwd, mapRev,    \* sd -> <s>_<d>_AutomorphicMap_Forward / _Reverse
    flowLinkMapFile,   \* repsd -> <s>_<d>_FlowLinkMap
    auxGroup,          \* repaux -> <u>_<i>_<j>_AuxiliaryGroup
    auxToRep,          \* host -> <u>_AuxToRep
    \* files under Output/<toponame>
    outFiles,          \* file name -> pickled data
    outWrites,         \* file name -> number of times the file was written
    splitFiles,        \* << kind, node >> -> SplitGroups/<kind>_<node>
    \* the status of the solve that ended last, and the main solve's answer
    lpStatus, X, ObjVal,
    \* the Verification and SolutionGrouping objects
    Route, linkload, remainedNodes, returned,
    error,             \* the exception that ended the run, "" without one
    \* state_helper: the HCONST dictionary and the directories that exist
    HCONST, dirs

ctl == << pc, run, ugraph >>
topo == << UG, Autgen, RepCommodities, RepCommFlowLinks, RepAuxiliarys, RepLinkConstrs >>
bfs == << cand, ci, tovisit, visited, reps, autgrp, flowlinkmap, pending, task >>
stagefiles == << stageData, stageWrites >>
commfiles == << commGroup, mapFwd, mapRev >>
pre == << stagefiles, commfiles, flowLinkMapFile, auxGroup, auxToRep >>
out == << outFiles, outWrites, splitFiles >>
lp == << lpStatus, X, ObjVal >>
post == << Route, linkload, remainedNodes, returned >>
hconst == << HCONST, dirs >>
vars == << ctl, topo, bfs, pre, out, lp, post, error, hconst >>
rest == << out, lp, post, error >>

NoGraph == MkGraph(<< >>, << >>, {}, << >>)
NoFiles == << >>
NoInput == ""

Exists(files, name) == name \in DOMAIN files
Dump(files, name, data) == (name :> data) @@ files

\* the locals of a traversal are gone when it returns
ClearLocals ==
    /\ cand' = << >> /\ ci' = 1 /\ tovisit' = {} /\ visited' = {} /\ reps' = {}
    /\ autgrp' = {} /\ flowlinkmap' = << >> /\ pending' = {} /\ task' = << >>

\* pickle.dump(data, open(HCONST['outputpath'] + '/' + name, 'wb'))
DumpOut(name, data) ==
    /\ outFiles' = Dump(outFiles, name, data)
    /\ outWrites' = Dump(outWrites, name,
                         IF Exists(outWrites, name) THEN outWrites[name] + 1 ELSE 1)

WritesOf(name) == IF Exists(outWrites, name) THEN outWrites[name] ELSE 0

\* pickle.dump(stagedata, open(stagepath, 'wb')) of a stage
DumpStage(name, data) ==
    /\ stageData' = Dump(stageData, name, data)
    /\ stageWrites' = Dump(stageWrites, name,
                           IF Exists(stageWrites, name) THEN stageWrites[name] + 1 ELSE 1)

(***************************************************************************)
(* state_helper.py: HCONST and the directories.  A path is the tuple of    *)
(* its components; NoPath stands for None where a path is expected.        *)
(***************************************************************************)
NoPath == << >>

\* HCONST as the module defines it: no 'topopath' key, the paths None
ImportedHCONST ==
    [k \in { "rootdir", "commpath", "flowpath", "auxpath", "stagepath",
             "outputpath", "splitgroupspath" } |-> NoPath]

\* HCONST after initHCONST(rootdir, toponame)
InitedHCONST(rootdir, toponame) ==
    LET topopath == << rootdir, "Precomputation", toponame >>
        outputpath == << rootdir, "Output", toponame >>
    IN  [k \in DOMAIN ImportedHCONST \cup { "topopath" } |->
            CASE k = "rootdir" -> << rootdir >>
              [] k = "topopath" -> topopath
              [] k = "commpath" -> Append(topopath, "commodity")
              [] k = "flowpath" -> Append(topopath, "flow")
              [] k = "auxpath" -> Append(topopath, "auxiliary")
              [] k = "stagepath" -> Append(topopath, "stage")
              [] k = "outputpath" -> outputpath
              [] k = "splitgroupspath" -> Append(outputpath, "SplitGroups")]

\* the parent of a path exists: the working directory always does
ParentExists(path, made) == Len(path) = 1 \/ SubSeq(path, 1, Len(path) - 1) \in made

\* if not os.path.exists(p): os.mkdir(p), for the paths of a list in turn;
\* the directories made up to the first os.mkdir that fails
RECURSIVE MakeDirs(_, _)
MakeDirs(paths, made) ==
    IF paths = << >> THEN made
    ELSE IF Head(paths) \in made THEN MakeDirs(Tail(paths), made)
    ELSE IF ParentExists(Head(paths), made)
         THEN MakeDirs(Tail(paths), made \cup { Head(paths) })
         ELSE made

\* some os.mkdir of the list fails
RECURSIVE MkdirFails(_, _)
MkdirFails(paths, made) ==
    IF paths = << >> THEN FALSE
    ELSE IF Head(paths) \in made THEN MkdirFails(Tail(paths), made)
    ELSE IF ParentExists(Head(paths), made)
         THEN MkdirFails(Tail(paths), made \cup { Head(paths) })
         ELSE TRUE

\* the directories of makePrecomputationDirectory before HCONST['topopath']
\* is read, and after
PrecomputationRoot(H) == << H["rootdir"], Append(H["rootdir"], "Precomputation") >>
PrecomputationPaths(H) ==
    << H["topopath"], H["commpath"], H["flowpath"], H["auxpath"], H["stagepath"] >>

\* the directories of makeOutputDirectory
OutputPaths(H) == << H["rootdir"], Append(H["rootdir"], "Output"), H["outputpath"] >>

\* process() has called initHCONST('.', toponame) and made the directories
ProcessHCONST == InitedHCONST(".", "topo")
ProcessDirs ==
    MakeDirs(PrecomputationRoot(ProcessHCONST) \o PrecomputationPaths(ProcessHCONST)
                 \o OutputPaths(ProcessHCONST), {})

\* what a caller of state_helper may pass
Roots == { ".", "run" }
Toponames == { "topo", "Ring-4" }

\* the caller is about to call a function of state_helper
callHelper ==
    /\ pc = "helper"
    /\ pc' \in { "initHCONST", "makePrecomputationDirectory", "makeOutputDirectory",
                 "makeSplitGroupsDirectory" }
    /\ UNCHANGED << run, ugraph, topo, bfs, pre, out, lp, post, error, hconst >>

initHCONST ==
    /\ pc = "initHCONST"
    /\ \E rootdir \in Roots, toponame \in Toponames :
          HCONST' = InitedHCONST(rootdir, toponame)
    /\ pc' = "helper"
    /\ UNCHANGED << run, ugraph, topo, bfs, pre, out, lp, post, error, dirs >>

\* a makePrecomputationDirectory that makes a directory before it looks at
\* rootdir (C19 must tell it apart)
makePrecomputationDirectoryLate ==
    /\ pc = "makePrecomputationDirectory"
    /\ LET made == MakeDirs(<< << "Precomputation" >> >>, dirs)
       IN  IF HCONST["rootdir"] = NoPath
           THEN /\ dirs' = made
                /\ pc' = "crashed"
                /\ error' = "AssertionError"
           ELSE /\ dirs' = MakeDirs(PrecomputationRoot(HCONST) \o PrecomputationPaths(HCONST),
                                    made)
                /\ IF MkdirFails(PrecomputationRoot(HCONST) \o PrecomputationPaths(HCONST),
                                 made)
                   THEN pc' = "crashed" /\ error' = "FileNotFoundError"
                   ELSE pc' = "helper" /\ error' = error
    /\ UNCHANGED << run, ugraph, topo, bfs, pre, out, lp, post, HCONST >>

makePrecomputationDirectory ==
    /\ pc = "makePrecomputationDirectory"
    /\ IF HCONST["rootdir"] = NoPath
       THEN /\ dirs' = dirs
            /\ pc' = "crashed"
            /\ error' = "AssertionError"
       ELSE LET made == MakeDirs(PrecomputationRoot(HCONST), dirs)
            IN  IF "topopath" \notin DOMAIN HCONST
                THEN /\ dirs' = made
                     /\ pc' = "crashed"
                     /\ error' = "KeyError"
                ELSE /\ dirs' = MakeDirs(PrecomputationPaths(HCONST), made)
                     /\ IF MkdirFails(PrecomputationPaths(HCONST), made)
                        THEN pc' = "crashed" /\ error' = "FileNotFoundError"
                        ELSE pc' = "helper" /\ error' = error
    /\ UNCHANGED << run, ugraph, topo, bfs, pre, out, lp, post, HCONST >>

makeOutputDirectory ==
    /\ pc = "makeOutputDirectory"
    /\ IF HCONST["rootdir"] = NoPath
       THEN /\ dirs' = dirs
            /\ pc' = "crashed"
            /\ error' = "AssertionError"
       ELSE /\ dirs' = MakeDirs(OutputPaths(HCONST), dirs)
            /\ IF MkdirFails(OutputPaths(HCONST), dirs)
               THEN pc' = "crashed" /\ error' = "FileNotFoundError"
               ELSE pc' = "helper" /\ error' = error
    /\ UNCHANGED << run, ugraph, topo, bfs, pre, out, lp, post, HCONST >>

\* os.path.exists(None) is a TypeError
makeSplitGroupsDirectory ==
    /\ pc = "makeSplitGroupsDirectory"
    /\ IF HCONST["splitgroupspath"] = NoPath
       THEN /\ dirs' = dirs
            /\ pc' = "crashed"
            /\ error' = "TypeError"
       ELSE /\ dirs' = MakeDirs(<< HCONST["splitgroupspath"] >>, dirs)
            /\ IF MkdirFails(<< HCONST["splitgroupspath"] >>, dirs)
               THEN pc' = "crashed" /\ error' = "FileNotFoundError"
               ELSE pc' = "helper" /\ error' = error
    /\ UNCHANGED << run, ugraph, topo, bfs, pre, out, lp, post, HCONST >>

(***************************************************************************)
(* Topology.setUGraph and Topology.findAutomorphicGenerators.              *)
(***************************************************************************)
\* a setUGraph that does not look for its checkpoint (C6 must tell it apart)
setUGraphAlways ==
    /\ pc = "setUGraph"
    /\ UG' = Graph(ugraph)
    /\ DumpStage("setUGraph", Graph(ugraph))
    /\ pc' = "findAutomorphicGenerators"
    /\ UNCHANGED << rest, run, ugraph, Autgen, RepCommodities, RepCommFlowLinks,
                    RepAuxiliarys, RepLinkConstrs, bfs, commfiles,
                    flowLinkMapFile, auxGroup, auxToRep >>
    /\ UNCHANGED hconst

setUGraph ==
    /\ pc = "setUGraph"
    /\ IF Exists(stageData, "setUGraph")
       THEN /\ UG' = stageData["setUGraph"]
            /\ UNCHANGED stagefiles
       ELSE /\ UG' = Graph(ugraph)
            /\ DumpStage("setUGraph", Graph(ugraph))
    /\ pc' = "findAutomorphicGenerators"
    /\ UNCHANGED << rest, run, ugraph, Autgen, RepCommodities, RepCommFlowLinks,
                    RepAuxiliarys, RepLinkConstrs, bfs, commfiles,
                    flowLinkMapFile, auxGroup, auxToRep >>
    /\ UNCHANGED hconst

findAutomorphicGenerators ==
    /\ pc = "findAutomorphicGenerators"
    /\ IF Exists(stageData, "findAutomorphicGenerator")
       THEN /\ Autgen' = stageData["findAutomorphicGenerator"]
            /\ UNCHANGED stagefiles
       ELSE \E S \in GeneratorSets(UG) : \E order \in Orders(S) :
               /\ Autgen' = order
               /\ DumpStage("findAutomorphicGenerator", order)
    /\ pc' = "findRepresentativeCommodities"
    /\ UNCHANGED << rest, run, ugraph, UG, RepCommodities, RepCommFlowLinks,
                    RepAuxiliarys, RepLinkConstrs, bfs, commfiles,
                    flowLinkMapFile, auxGroup, auxToRep >>
    /\ UNCHANGED hconst

(***************************************************************************)
(* Topology.findRepresentativeCommodities.                                 *)
(***************************************************************************)
\* a reverse map that repeats the forward map (C3 must tell it apart)
ReverseOfForward(fmap) == fmap

\* rmap = [None]*len(fmap); for i in range(len(fmap)): rmap[fmap[i]] = i
ReverseOf(fmap) ==
    [j \in DOMAIN fmap |->
        IF \E i \in DOMAIN fmap : fmap[i] = j
        THEN Max({ i \in DOMAIN fmap : fmap[i] = j })
        ELSE None]

\* the two map files of sd after saveCommodityAutomorphicMap(sd, parent, autmap);
\* files is [fwd, rev, tv]
saveCommodityAutomorphicMap(files, sd, parent, autmap) ==
    IF sd = parent
    THEN LET fmap == Identity(UG.N)
         IN  [files EXCEPT !.fwd = Dump(@, sd, fmap), !.rev = Dump(@, sd, fmap)]
    ELSE LET pmapfwd == files.fwd[parent]
             fmap == applyGenerator(pmapfwd, autmap)
             rmap == ReverseOf(fmap)
         IN  [files EXCEPT !.fwd = Dump(@, sd, fmap), !.rev = Dump(@, sd, rmap)]

\* an expansion by the first generator only (C17 must tell it apart)
ExpandCommodityFirst(k, sd, vis, st) ==
    IF k > Len(Autgen) \/ k > 1 THEN st
    ELSE LET asd == applyGenerator(sd, Autgen[k])
         IN  IF asd \in vis
             THEN st
             ELSE [saveCommodityAutomorphicMap(st, asd, sd, Autgen[k])
                      EXCEPT !.tv = @ \cup { << asd, sd >> }]

\* for autmap in self.Autgen: ... of one popped commodity sd, from the k-th
\* generator on
RECURSIVE ExpandCommodity(_, _, _, _)
ExpandCommodity(k, sd, vis, st) ==
    IF k > Len(Autgen) THEN st
    ELSE LET asd == applyGenerator(sd, Autgen[k])
         IN  IF asd \in vis
             THEN ExpandCommodity(k + 1, sd, vis, st)
             ELSE ExpandCommodity(k + 1, sd, vis,
                      [saveCommodityAutomorphicMap(st, asd, sd, Autgen[k])
                          EXCEPT !.tv = @ \cup { << asd, sd >> }])

RCBegin ==
    /\ pc = "findRepresentativeCommodities"
    /\ IF Exists(stageData, "findRepresentativeCommodities")
       THEN /\ RepCommodities' = stageData["findRepresentativeCommodities"]
            /\ pc' = "findRepresentativeCommodityFlowLinks"
            /\ UNCHANGED bfs
       ELSE /\ tovisit' = {} /\ visited' = {} /\ reps' = {}
            /\ cand' = SortedList(Commodities(UG))
            /\ ci' = 1
            /\ pc' = "rc_for"
            /\ UNCHANGED << RepCommodities, autgrp, flowlinkmap, pending, task >>
    /\ UNCHANGED << rest, run, ugraph, UG, Autgen, RepCommFlowLinks, RepAuxiliarys,
                    RepLinkConstrs, pre >>
    /\ UNCHANGED hconst

RCSkip ==
    /\ pc = "rc_for"
    /\ ci <= Len(cand)
    /\ cand[ci] \in visited
    /\ ci' = ci + 1
    /\ UNCHANGED << rest, ctl, topo, cand, tovisit, visited, reps, autgrp, flowlinkmap,
                    pending, task, pre >>
    /\ UNCHANGED hconst

\* a seeding that does not look at visited (C2 must tell it apart)
RCSeedVisited ==
    /\ pc = "rc_for"
    /\ ci <= Len(cand)
    /\ LET repsd == cand[ci]
           st == saveCommodityAutomorphicMap([fwd |-> mapFwd, rev |-> mapRev, tv |-> {}],
                                             repsd, repsd, None)
       IN  /\ reps' = reps \cup { repsd }
           /\ autgrp' = {}
           /\ mapFwd' = st.fwd
           /\ mapRev' = st.rev
           /\ tovisit' = tovisit \cup { << repsd, repsd >> }
    /\ pc' = "rc_while"
    /\ UNCHANGED << rest, run, ugraph, topo, cand, ci, visited, flowlinkmap, pending, task,
                    stagefiles, commGroup, flowLinkMapFile, auxGroup, auxToRep >>
    /\ UNCHANGED hconst

RCSeed ==
    /\ pc = "rc_for"
    /\ ci <= Len(cand)
    /\ cand[ci] \notin visited
    /\ LET repsd == cand[ci]
           st == saveCommodityAutomorphicMap([fwd |-> mapFwd, rev |-> mapRev, tv |-> {}],
                                             repsd, repsd, None)
       IN  /\ reps' = reps \cup { repsd }
           /\ autgrp' = {}
           /\ mapFwd' = st.fwd
           /\ mapRev' = st.rev
           /\ tovisit' = tovisit \cup { << repsd, repsd >> }
    /\ pc' = "rc_while"
    /\ UNCHANGED << rest, run, ugraph, topo, cand, ci, visited, flowlinkmap, pending, task,
                    stagefiles, commGroup, flowLinkMapFile, auxGroup, auxToRep >>
    /\ UNCHANGED hconst

RCPop ==
    /\ pc = "rc_while"
    /\ tovisit # {}
    /\ \E e \in tovisit :
          LET sd == e[1]
              vis == visited \cup { sd }
              st == ExpandCommodity(1, sd, vis,
                        [fwd |-> mapFwd, rev |-> mapRev, tv |-> tovisit \ { e }])
          IN  /\ autgrp' = autgrp \cup { sd }
              /\ visited' = vis
              /\ mapFwd' = st.fwd
              /\ mapRev' = st.rev
              /\ tovisit' = st.tv
    /\ UNCHANGED << rest, ctl, topo, cand, ci, reps, flowlinkmap, pending, task,
                    stagefiles, commGroup, flowLinkMapFile, auxGroup, auxToRep >>
    /\ UNCHANGED hconst

\* the while loop has ended: saveCommodityGroup(repsd, autcomms)
RCSaveGroup ==
    /\ pc = "rc_while"
    /\ tovisit = {}
    /\ commGroup' = Dump(commGroup, cand[ci], autgrp)
    /\ ci' = ci + 1
    /\ pc' = "rc_for"
    /\ UNCHANGED << rest, run, ugraph, topo, cand, tovisit, visited, reps, autgrp,
                    flowlinkmap, pending, task, stagefiles, mapFwd, mapRev,
                    flowLinkMapFile, auxGroup, auxToRep >>
    /\ UNCHANGED hconst

RCFinish ==
    /\ pc = "rc_for"
    /\ ci > Len(cand)
    /\ RepCommodities' = reps
    /\ DumpStage("findRepresentativeCommodities", reps)
    /\ pc' = "findRepresentativeCommodityFlowLinks"
    /\ ClearLocals
    /\ UNCHANGED << rest, run, ugraph, UG, Autgen, RepCommFlowLinks, RepAuxiliarys,
                    RepLinkConstrs, commfiles, flowLinkMapFile, auxGroup,
                    auxToRep >>
    /\ UNCHANGED hconst

(***************************************************************************)
(* Topology.findRepresentativeCommodityFlowLinks: one task per              *)
(* representative commodity; the tasks share nothing, so they are run one  *)
(* after the other in the order in which the pool hands back the results.  *)
(***************************************************************************)
\* a traversal by all the generators (C21 must tell it apart)
StabilizerGensAll(repsd) == Range(Autgen)

\* the generators that involve neither end of repsd
StabilizerGens(repsd) ==
    { autmap \in Range(Autgen) :
        ~ (involve(repsd[1], autmap) \/ involve(repsd[2], autmap)) }

FLBegin ==
    /\ pc = "findRepresentativeCommodityFlowLinks"
    /\ IF Exists(stageData, "findRepresentativeCommodityFlowLinks")
       THEN /\ RepCommFlowLinks' = stageData["findRepresentativeCommodityFlowLinks"]
            /\ pc' = "findRepresentativeAuxs"
            /\ UNCHANGED pending
       ELSE /\ RepCommFlowLinks' = << >>
            /\ pending' = RepCommodities
            /\ pc' = "fl_pool"
    /\ UNCHANGED << rest, run, ugraph, UG, Autgen, RepCommodities, RepAuxiliarys,
                    RepLinkConstrs, cand, ci, tovisit, visited, reps, autgrp,
                    flowlinkmap, task, pre >>
    /\ UNCHANGED hconst

\* findRepresentativeCommodityFlowLinksByCommodity(repsd) up to its for loop
FLTask ==
    /\ pc = "fl_pool"
    /\ \E repsd \in pending :
          /\ task' = repsd
          /\ pending' = pending \ { repsd }
    /\ tovisit' = {} /\ visited' = {} /\ reps' = {} /\ flowlinkmap' = << >>
    /\ cand' = SortedList(DLinks(UG))
    /\ ci' = 1
    /\ pc' = "fl_for"
    /\ UNCHANGED << rest, run, ugraph, topo, autgrp, pre >>
    /\ UNCHANGED hconst

FLSkip ==
    /\ pc = "fl_for"
    /\ ci <= Len(cand)
    /\ cand[ci] \in visited
    /\ ci' = ci + 1
    /\ UNCHANGED << rest, ctl, topo, cand, tovisit, visited, reps, autgrp, flowlinkmap,
                    pending, task, pre >>
    /\ UNCHANGED hconst

FLSeed ==
    /\ pc = "fl_for"
    /\ ci <= Len(cand)
    /\ cand[ci] \notin visited
    /\ reps' = reps \cup { cand[ci] }
    /\ flowlinkmap' = Dump(flowlinkmap, cand[ci], cand[ci])
    /\ tovisit' = tovisit \cup { cand[ci] }
    /\ pc' = "fl_while"
    /\ UNCHANGED << rest, run, ugraph, topo, cand, ci, visited, autgrp, pending, task, pre >>
    /\ UNCHANGED hconst

\* the links a popped link puts on the to-visit set
ExpandLink(link, vis, autgen) ==
    { applyGenerator(link, autmap) : autmap \in autgen } \ vis

FLPop ==
    /\ pc = "fl_while"
    /\ tovisit # {}
    /\ \E link \in tovisit :
          LET vis == visited \cup { link }
              new == ExpandLink(link, vis, StabilizerGens(task))
          IN  /\ visited' = vis
              /\ flowlinkmap' = [alink \in new |-> flowlinkmap[link]] @@ flowlinkmap
              /\ tovisit' = (tovisit \ { link }) \cup new
    /\ UNCHANGED << rest, ctl, topo, cand, ci, reps, autgrp, pending, task, pre >>
    /\ UNCHANGED hconst

FLEndWhile ==
    /\ pc = "fl_while"
    /\ tovisit = {}
    /\ ci' = ci + 1
    /\ pc' = "fl_for"
    /\ UNCHANGED << rest, run, ugraph, topo, cand, tovisit, visited, reps, autgrp,
                    flowlinkmap, pending, task, pre >>
    /\ UNCHANGED hconst

\* a task whose flowlinkmap is not saved (C28 must tell it apart)
FLReturnUnsaved ==
    /\ pc = "fl_for"
    /\ ci > Len(cand)
    /\ flowLinkMapFile' = flowLinkMapFile
    /\ RepCommFlowLinks' = Dump(RepCommFlowLinks, task, reps)
    /\ pc' = "fl_pool"
    /\ cand' = << >> /\ ci' = 1 /\ tovisit' = {} /\ visited' = {} /\ reps' = {}
    /\ flowlinkmap' = << >> /\ task' = << >>
    /\ UNCHANGED << rest, run, ugraph, UG, Autgen, RepCommodities, RepAuxiliarys,
                    RepLinkConstrs, autgrp, pending, stagefiles, commfiles,
                    auxGroup, auxToRep >>
    /\ UNCHANGED hconst

\* saveCommodityFlowLinkMap in the task, and the merge of its result
FLReturn ==
    /\ pc = "fl_for"
    /\ ci > Len(cand)
    /\ flowLinkMapFile' = Dump(flowLinkMapFile, task, flowlinkmap)
    /\ RepCommFlowLinks' = Dump(RepCommFlowLinks, task, reps)
    /\ pc' = "fl_pool"
    /\ cand' = << >> /\ ci' = 1 /\ tovisit' = {} /\ visited' = {} /\ reps' = {}
    /\ flowlinkmap' = << >> /\ task' = << >>
    /\ UNCHANGED << rest, run, ugraph, UG, Autgen, RepCommodities, RepAuxiliarys,
                    RepLinkConstrs, autgrp, pending, stagefiles, commfiles,
                    auxGroup, auxToRep >>
    /\ UNCHANGED hconst

FLFinish ==
    /\ pc = "fl_pool"
    /\ pending = {}
    /\ DumpStage("findRepresentativeCommodityFlowLinks", RepCommFlowLinks)
    /\ pc' = "findRepresentativeAuxs"
    /\ UNCHANGED << rest, run, ugraph, topo, bfs, commfiles, flowLinkMapFile, auxGroup,
                    auxToRep >>
    /\ UNCHANGED hconst

(***************************************************************************)
(* Topology.findRepresentativeAuxs and computeAuxReverseMap.               *)
(***************************************************************************)
AuxIndice(G) == { << u, l[1], l[2] >> : u \in HostNodes(G), l \in DLinks(G) }

RABegin ==
    /\ pc = "findRepresentativeAuxs"
    /\ IF Exists(stageData, "findRepresentativeAuxs")
       THEN /\ RepAuxiliarys' = stageData["findRepresentativeAuxs"]
            /\ pc' = "computeAuxReverseMap"
            /\ UNCHANGED bfs
       ELSE /\ tovisit' = {} /\ visited' = {} /\ reps' = {}
            /\ cand' = SortedList(AuxIndice(UG))
            /\ ci' = 1
            /\ pc' = "ra_for"
            /\ UNCHANGED << RepAuxiliarys, autgrp, flowlinkmap, pending, task >>
    /\ UNCHANGED << rest, run, ugraph, UG, Autgen, RepCommodities, RepCommFlowLinks,
                    RepLinkConstrs, pre >>
    /\ UNCHANGED hconst

RASkip ==
    /\ pc = "ra_for"
    /\ ci <= Len(cand)
    /\ cand[ci] \in visited
    /\ ci' = ci + 1
    /\ UNCHANGED << rest, ctl, topo, cand, tovisit, visited, reps, autgrp, flowlinkmap,
                    pending, task, pre >>
    /\ UNCHANGED hconst

RASeed ==
    /\ pc = "ra_for"
    /\ ci <= Len(cand)
    /\ cand[ci] \notin visited
    /\ reps' = reps \cup { cand[ci] }
    /\ autgrp' = {}
    /\ tovisit' = tovisit \cup { cand[ci] }
    /\ pc' = "ra_while"
    /\ UNCHANGED << rest, run, ugraph, topo, cand, ci, visited, flowlinkmap, pending,
                    task, pre >>
    /\ UNCHANGED hconst

\* an expansion that puts the images that are visited back on the to-visit
\* set (C26 must tell it apart)
ExpandAuxRevisit(aux, vis) ==
    { applyGenerator(aux, autmap) : autmap \in Range(Autgen) }

\* an expansion of the least member of the to-visit set only, so that what is
\* reached depends on the order of the pops (C25 must tell it apart)
ExpandAuxLeast(aux, vis) ==
    IF \A other \in tovisit : other = aux \/ LexLess(aux, other)
    THEN { applyGenerator(aux, autmap) : autmap \in Range(Autgen) } \ vis
    ELSE {}

\* an expansion by the first generator only (C1 must tell it apart)
ExpandAuxFirst(aux, vis) ==
    { applyGenerator(aux, Autgen[k]) : k \in { j \in DOMAIN Autgen : j = 1 } } \ vis

\* the auxiliary indices a popped index puts on the to-visit set
ExpandAux(aux, vis) ==
    { applyGenerator(aux, autmap) : autmap \in Range(Autgen) } \ vis

RAPop ==
    /\ pc = "ra_while"
    /\ tovisit # {}
    /\ \E aux \in tovisit :
          LET vis == visited \cup { aux }
          IN  /\ autgrp' = autgrp \cup { aux }
              /\ visited' = vis
              /\ tovisit' = (tovisit \ { aux }) \cup ExpandAux(aux, vis)
    /\ UNCHANGED << rest, ctl, topo, cand, ci, reps, flowlinkmap, pending, task, pre >>
    /\ UNCHANGED hconst

\* the while loop has ended: saveAuxiliaryGroup(repaux, autauxs)
RASaveGroup ==
    /\ pc = "ra_while"
    /\ tovisit = {}
    /\ auxGroup' = Dump(auxGroup, cand[ci], autgrp)
    /\ ci' = ci + 1
    /\ pc' = "ra_for"
    /\ UNCHANGED << rest, run, ugraph, topo, cand, tovisit, visited, reps, autgrp,
                    flowlinkmap, pending, task, stagefiles, commfiles,
                    flowLinkMapFile, auxToRep >>
    /\ UNCHANGED hconst

RAFinish ==
    /\ pc = "ra_for"
    /\ ci > Len(cand)
    /\ RepAuxiliarys' = reps
    /\ DumpStage("findRepresentativeAuxs", reps)
    /\ pc' = "computeAuxReverseMap"
    /\ ClearLocals
    /\ UNCHANGED << rest, run, ugraph, UG, Autgen, RepCommodities, RepCommFlowLinks,
                    RepLinkConstrs, commfiles, flowLinkMapFile, auxGroup,
                    auxToRep >>
    /\ UNCHANGED hconst

\* auxtorep of host u: a representative whose group holds (u, i, j); the loop
\* keeps the one it meets last
AuxToRepOf(u) ==
    LET keys == { l \in DLinks(UG) :
                    \E repaux \in RepAuxiliarys :
                        << u, l[1], l[2] >> \in auxGroup[repaux] }
    IN  [l \in keys |->
            CHOOSE repaux \in RepAuxiliarys : << u, l[1], l[2] >> \in auxGroup[repaux]]

computeAuxReverseMap ==
    /\ pc = "computeAuxReverseMap"
    /\ \A repaux \in RepAuxiliarys : Exists(auxGroup, repaux)
    /\ auxToRep' = [u \in HostNodes(UG) |-> AuxToRepOf(u)] @@ auxToRep
    /\ pc' = "findRepresentativeLinkConstrs"
    /\ UNCHANGED << rest, run, ugraph, topo, bfs, stagefiles, commfiles, flowLinkMapFile,
                    auxGroup >>
    /\ UNCHANGED hconst

(***************************************************************************)
(* Topology.findRepresentativeLinkConstrs.                                 *)
(***************************************************************************)
\* counts by the auxiliary index of the link itself instead of by its
\* representative (C13 must tell it apart)
encodeLinkConstraintRaw(link) ==
    [auxidx \in RepAuxiliarys |->
        Cardinality({ u \in HostNodes(UG) : << u, link[1], link[2] >> = auxidx })]

\* counts every host under every representative (C14 must tell it apart)
encodeLinkConstraintAll(link) ==
    [auxidx \in RepAuxiliarys |-> Cardinality(HostNodes(UG))]

\* the counts of encodeLinkConstraint, by representative auxiliary index
\* ('b' and 'g' are counted alike)
encodeLinkConstraint(link) ==
    [auxidx \in RepAuxiliarys |->
        Cardinality({ u \in HostNodes(UG) : auxToRep[u][link] = auxidx })]

\* repgroups.values()
LinkClasses ==
    { { l \in DLinks(UG) : encodeLinkConstraint(l) = encodeLinkConstraint(link) } :
        link \in DLinks(UG) }

\* one links.pop() per class
PoppedLinks == { R \in SUBSET DLinks(UG) :
                   \A c \in LinkClasses : Cardinality(R \cap c) = 1 }

findRepresentativeLinkConstrs ==
    /\ pc = "findRepresentativeLinkConstrs"
    /\ IF Exists(stageData, "findRepresentativeLinkConstrs")
       THEN /\ RepLinkConstrs' = stageData["findRepresentativeLinkConstrs"]
            /\ UNCHANGED stagefiles
       ELSE \E replinks \in PoppedLinks :
               /\ RepLinkConstrs' = replinks
               /\ DumpStage("findRepresentativeLinkConstrs", replinks)
    /\ pc' = "TopoComputationTime"
    /\ UNCHANGED << rest, run, ugraph, UG, Autgen, RepCommodities, RepCommFlowLinks,
                    RepAuxiliarys, bfs, commfiles, flowLinkMapFile, auxGroup,
                    auxToRep >>
    /\ UNCHANGED hconst

\* Topology.__init__ ends: pickle.dump(self.ComputationTime, ...); the graph
\* handed to process() is read nowhere after Topology(G, toponame, NumThread)
dumpTopoComputationTime ==
    /\ pc = "TopoComputationTime"
    /\ DumpOut("TopoComputationTime", run)
    /\ ugraph' = NoInput
    /\ pc' = "Optimization"
    /\ UNCHANGED << run, topo, bfs, pre, splitFiles, lp, post, error >>
    /\ UNCHANGED hconst

(***************************************************************************)
(* Optimization: the reduced linear program.  Flow values, auxiliary       *)
(* values and the objective are whole multiples of 1/Scale.                *)
(***************************************************************************)
RECURSIVE Sum(_, _)
Sum(f, S) ==
    IF S = {} THEN 0
    ELSE LET x == CHOOSE x \in S : TRUE IN f[x] + Sum(f, S \ {x})

Min(S) == CHOOSE x \in S : \A y \in S : x <= y

\* all functions f on D with f[d] \in Sets[d]
RECURSIVE FunProduct(_, _)
FunProduct(D, Sets) ==
    IF D = {} THEN { << >> }
    ELSE LET d == CHOOSE d \in D : TRUE
         IN  { (d :> v) @@ f : v \in Sets[d], f \in FunProduct(D \ {d}, Sets) }

\* The Topology object as pickled into Output/<toponame>/Topology
TopologyObject ==
    [UG |-> UG, Autgen |-> Autgen, RepCommodities |-> RepCommodities,
     RepCommFlowLinks |-> RepCommFlowLinks, RepAuxiliarys |-> RepAuxiliarys,
     RepLinkConstrs |-> RepLinkConstrs]

\* Optimization.__init__
OptimizationInit ==
    /\ pc = "Optimization"
    /\ outFiles' = Dump(Dump(outFiles, "Parameters", "Optimization"),
                        "Topology", TopologyObject)
    /\ outWrites' = Dump(Dump(outWrites, "Parameters", WritesOf("Parameters") + 1),
                         "Topology", WritesOf("Topology") + 1)
    /\ pc' = "optimize"
    /\ UNCHANGED << run, ugraph, topo, bfs, pre, splitFiles, lp, post, error >>
    /\ UNCHANGED hconst

\* variables bounded by the largest capacity of the graph instead of the
\* capacity of their link (C16 must tell it apart)
FlowBoxOfLargest(repsd) ==
    FunProduct(RepCommFlowLinks[repsd],
               [l \in RepCommFlowLinks[repsd] |->
                   0..(Max({ Capacity(UG, k) : k \in DLinks(UG) }) * Scale)])

\* createVariables: F[repsd][repflowlink] with lb = 0, ub = linkcap
FlowBoxOf(repsd) ==
    FunProduct(RepCommFlowLinks[repsd],
               [l \in RepCommFlowLinks[repsd] |-> 0..(Capacity(UG, l) * Scale)])

\* createVariables: B[repaux], G[repaux] with lb = 0; a value above 1 never
\* lowers the objective
AuxBox == [RepAuxiliarys -> 0..Scale]

\* conservation at the host nodes only (C4 must tell it apart)
FlowConservationAtHosts(repsd, f) ==
    LET s == repsd[1]
        d == repsd[2]
        flowmap == flowLinkMapFile[repsd]
    IN  \A n \in HostNodes(UG) :
           LET nb == Neighbors(UG, n)
               flowin == Sum([h \in nb |-> f[flowmap[<< h, n >>]]], nb)
                         + (IF n = s THEN Scale ELSE 0)
               flowout == Sum([h \in nb |-> f[flowmap[<< n, h >>]]], nb)
                          + (IF n = d THEN Scale ELSE 0)
           IN  flowin = flowout

\* setFlowConservationConstraint, the constraints of repsd on its flows f
FlowConservationOf(repsd, f) ==
    LET s == repsd[1]
        d == repsd[2]
        flowmap == flowLinkMapFile[repsd]
    IN  \A n \in AllNodes(UG) :
           LET nb == Neighbors(UG, n)
               flowin == Sum([h \in nb |-> f[flowmap[<< h, n >>]]], nb)
                         + (IF n = s THEN Scale ELSE 0)
               flowout == Sum([h \in nb |-> f[flowmap[<< n, h >>]]], nb)
                          + (IF n = d THEN Scale ELSE 0)
           IN  flowin = flowout

\* the constraints on the links back to the source and away from the
\* destination alone (C15 must tell it apart)
AdditionalFlowEndsOnly(repsd, f) ==
    LET s == repsd[1]
        d == repsd[2]
    IN  \A l \in RepCommFlowLinks[repsd] : (l[2] = s \/ l[1] = d) => f[l] = 0

\* setAdditionalFlowConstraint, the constraints of repsd on its flows f
AdditionalFlowOf(repsd, f) ==
    LET s == repsd[1]
        d == repsd[2]
        avoidlinks == AllNodes(UG) \X (NonRouteNodes(UG) \ { d })
    IN  /\ \A l \in RepCommFlowLinks[repsd] \cap avoidlinks : f[l] = 0
        /\ \A l \in RepCommFlowLinks[repsd] : (l[2] = s \/ l[1] = d) => f[l] = 0

\* the left side of setAuxThroughputConstraint for link (i, j)
AuxThroughputLhs(link, B, G) ==
    Sum([u \in HostNodes(UG) |->
            UG.numServer[u] * (B[auxToRep[u][link]] + G[auxToRep[u][link]])],
        HostNodes(UG))

\* setAuxThroughputConstraint: lhs <= R for each link of RepLinkConstrs
AuxThroughputConstraint(B, G, R) ==
    \A link \in RepLinkConstrs : AuxThroughputLhs(link, B, G) <= R

\* setAuxFlowConstraint: F/linkcap - B[bauxidx] - G[gauxidx] <= 0
AuxFlowConstraint(F, B, G) ==
    \A repsd \in RepCommodities : \A repflowlink \in RepCommFlowLinks[repsd] :
        LET linkcap == Capacity(UG, repflowlink)
            bauxidx == auxToRep[repsd[1]][repflowlink]
            gauxidx == auxToRep[repsd[2]][repflowlink]
        IN  F[repsd][repflowlink] <= linkcap * (B[bauxidx] + G[gauxidx])

\* the flow assignments that meet the flow constraints
FeasibleFlows ==
    FunProduct(RepCommodities,
               [repsd \in RepCommodities |->
                   { f \in FlowBoxOf(repsd) :
                       FlowConservationOf(repsd, f) /\ AdditionalFlowOf(repsd, f) }])

\* the least R (lb = 0) that meets setAuxThroughputConstraint for B and G
LeastR(B, G) ==
    Max({ 0 } \cup { AuxThroughputLhs(link, B, G) : link \in RepLinkConstrs })

\* the auxiliary indices in the throughput constraint of a link
AuxOfLink(link) == { auxToRep[u][link] : u \in HostNodes(UG) }

\* the rows of setAuxFlowConstraint whose auxiliary variables are among A
FlowRowsOf(A) ==
    { row \in { << repsd, l >> : repsd \in RepCommodities, l \in DLinks(UG) } :
        /\ row[2] \in RepCommFlowLinks[row[1]]
        /\ auxToRep[row[1][1]][row[2]] \in A
        /\ auxToRep[row[1][2]][row[2]] \in A }

AllFlowRows ==
    { row \in { << repsd, l >> : repsd \in RepCommodities, l \in DLinks(UG) } :
        row[2] \in RepCommFlowLinks[row[1]] }

\* no auxiliary variable is shared by the throughput constraints of two
\* links, and every row of setAuxFlowConstraint lies within one of them
Separable ==
    /\ \A l1, l2 \in RepLinkConstrs : l1 # l2 => AuxOfLink(l1) \cap AuxOfLink(l2) = {}
    /\ UNION { AuxOfLink(l) : l \in RepLinkConstrs } = RepAuxiliarys
    /\ UNION { FlowRowsOf(AuxOfLink(l)) : l \in RepLinkConstrs } = AllFlowRows

\* the least left side of the throughput constraint of link over the values
\* of its auxiliary variables that meet their rows of setAuxFlowConstraint
LeastRAt(link, F) ==
    LET A == AuxOfLink(link)
        box == [A -> 0..Scale]
        ok(B, G) == \A row \in FlowRowsOf(A) :
                       F[row[1]][row[2]] <=
                           Capacity(UG, row[2]) * (B[auxToRep[row[1][1]][row[2]]]
                                                   + G[auxToRep[row[1][2]][row[2]]])
        lhs(B, G) == Sum([u \in HostNodes(UG) |->
                            UG.numServer[u] * (B[auxToRep[u][link]] + G[auxToRep[u][link]])],
                         HostNodes(UG))
    IN  Min({ lhs(bg[1], bg[2]) : bg \in { c \in box \X box : ok(c[1], c[2]) } })

\* setObjective: the least value of R over the auxiliary values that meet
\* setAuxFlowConstraint with the flows F; the minimum is taken link by link
\* where the constraints of the links share no variable
MinObjective(F) ==
    IF Separable
    THEN Max({ 0 } \cup { LeastRAt(link, F) : link \in RepLinkConstrs })
    ELSE Min({ LeastR(bg[1], bg[2]) : bg \in { c \in AuxBox \X AuxBox :
                                                AuxFlowConstraint(F, c[1], c[2]) } })

\* M.optimize() ending OPTIMAL: flows of a solution with the least objective,
\* as [F, ObjVal]
OptimalSolutions ==
    LET val == { << F, MinObjective(F) >> : F \in FeasibleFlows }
        best == Min({ v[2] : v \in val })
    IN  { [F |-> v[1], ObjVal |-> best] : v \in { w \in val : w[2] = best } }

NoSolution == << >>

\* statuses of a solve other than OPTIMAL and TIME_LIMIT
OtherStatuses == { "INFEASIBLE", "INTERRUPTED" }

\* a routing that records every flow, zero or not (C30 must tell it apart)
BuildRoutingAll(F) ==
    [l \in DLinks(UG) |->
        [repsd \in RepCommodities |-> F[repsd][flowLinkMapFile[repsd][l]]]]

\* the digraph built by saveOptimalRouting and saveIntermediateRouting:
\* link -> (repsd -> flow) for the positive flows
BuildRouting(F) ==
    [l \in DLinks(UG) |->
        LET carried == { repsd \in RepCommodities :
                           F[repsd][flowLinkMapFile[repsd][l]] > 0 }
        IN  [repsd \in carried |-> F[repsd][flowLinkMapFile[repsd][l]]]]

\* optimize() when ComputedThroughput exists
optimizeSkip ==
    /\ pc = "optimize"
    /\ Exists(outFiles, "ComputedThroughput")
    /\ pc' = "Verification"
    /\ UNCHANGED << run, ugraph, topo, bfs, pre, out, lp, post, error >>
    /\ UNCHANGED hconst

\* a solve whose other statuses are handled like the time limit (C8 must
\* tell it apart)
computeOptimalSolutionLenient ==
    /\ pc = "optimize"
    /\ ~ Exists(outFiles, "ComputedThroughput")
    /\ \/ \E sol \in OptimalSolutions :
             /\ lpStatus' = "OPTIMAL"
             /\ X' = sol.F
             /\ ObjVal' = sol.ObjVal
             /\ pc' = "dumpComputedThroughput"
       \/ /\ lpStatus' \in OtherStatuses \cup { "TIME_LIMIT" }
          /\ X' \in FeasibleFlows \cup { NoSolution }
          /\ ObjVal' = 0
          /\ pc' = "saveIntermediateRouting"
    /\ UNCHANGED << run, ugraph, topo, bfs, pre, out, post, error >>
    /\ UNCHANGED hconst

\* optimize() up to the return of M.optimize() in computeOptimalSolution.  At
\* the time limit the solver holds either no solution values or those of a
\* feasible point that need not be optimal.
computeOptimalSolution ==
    /\ pc = "optimize"
    /\ ~ Exists(outFiles, "ComputedThroughput")
    /\ \/ \E sol \in OptimalSolutions :
             /\ lpStatus' = "OPTIMAL"
             /\ X' = sol.F
             /\ ObjVal' = sol.ObjVal
             /\ IF sol.ObjVal = 0
                THEN pc' = "crashed" /\ error' = "ZeroDivisionError"
                ELSE pc' = "dumpComputedThroughput" /\ error' = error
       \/ /\ lpStatus' = "TIME_LIMIT"
          /\ X' \in FeasibleFlows \cup { NoSolution }
          /\ ObjVal' = 0
          /\ pc' = "saveIntermediateRouting"
          /\ error' = error
       \/ /\ lpStatus' \in OtherStatuses
          /\ X' = NoSolution
          /\ ObjVal' = 0
          /\ pc' = "crashed"
          /\ error' = "AssertionError: Main optimization fails"
    /\ UNCHANGED << run, ugraph, topo, bfs, pre, out, post >>
    /\ UNCHANGED hconst

\* throughput = 1.0/M.ObjVal, as the fraction << numerator, denominator >>
dumpComputedThroughput ==
    /\ pc = "dumpComputedThroughput"
    /\ DumpOut("ComputedThroughput", << Scale, ObjVal >>)
    /\ pc' = "dumpOptimizationTime"
    /\ UNCHANGED << run, ugraph, topo, bfs, pre, splitFiles, lp, post, error >>
    /\ UNCHANGED hconst

dumpOptimizationTime ==
    /\ pc = "dumpOptimizationTime"
    /\ DumpOut("OptimizationTime", run)
    /\ pc' = "saveOptimalRouting"
    /\ UNCHANGED << run, ugraph, topo, bfs, pre, splitFiles, lp, post, error >>
    /\ UNCHANGED hconst

saveOptimalRouting ==
    /\ pc = "saveOptimalRouting"
    /\ DumpOut("OptimalRouting", BuildRouting(X))
    /\ pc' = "Verification"
    /\ UNCHANGED << run, ugraph, topo, bfs, pre, splitFiles, lp, post, error >>
    /\ UNCHANGED hconst

\* saveIntermediateRouting: without solution values F[..].X raises; with them
\* IntermediateRouting is dumped and M.getVars() raises NameError, M being no
\* name of this function
saveIntermediateRouting ==
    /\ pc = "saveIntermediateRouting"
    /\ IF X = NoSolution /\ RepCommodities # {}
       THEN /\ error' = "AttributeError"
            /\ UNCHANGED out
       ELSE /\ DumpOut("IntermediateRouting", BuildRouting(X))
            /\ error' = "NameError"
            /\ UNCHANGED splitFiles
    /\ pc' = "crashed"
    /\ UNCHANGED << run, ugraph, topo, bfs, pre, lp, post >>
    /\ UNCHANGED hconst

(***************************************************************************)
(* Verification.  A load is the fraction << numerator, denominator >>.      *)
(***************************************************************************)
\* self.Topo = pickle.load(open(HCONST['outputpath'] + '/' + 'Topology', 'rb'))
Topo == outFiles["Topology"]

\* process(): verify is False
VerificationOff ==
    /\ pc = "Verification"
    /\ pc' = "SolutionGrouping"
    /\ UNCHANGED << run, ugraph, topo, bfs, pre, out, lp, post, error >>
    /\ UNCHANGED hconst

\* Verification.__init__ with intermediate False
VerificationInit ==
    /\ pc = "Verification"
    /\ IF Exists(outFiles, "Topology") /\ Exists(outFiles, "OptimalRouting")
       THEN /\ Route' = outFiles["OptimalRouting"]
            /\ pc' = "verifyAllLinkLoad"
            /\ error' = error
       ELSE /\ Route' = Route
            /\ pc' = "crashed"
            /\ error' = "FileNotFoundError"
    /\ UNCHANGED << run, ugraph, topo, bfs, pre, out, lp, linkload, remainedNodes,
                    returned >>
    /\ UNCHANGED hconst

\* what the caller gets from a bare return
NoValue == << >>

\* verifyAllLinkLoad when VerifiedThroughput exists: the value is loaded and
\* printed, and the function ends with a bare return
verifyAllLinkLoadCached ==
    /\ pc = "verifyAllLinkLoad"
    /\ Exists(outFiles, "VerifiedThroughput")
    /\ returned' = NoValue
    /\ pc' = "SolutionGrouping"
    /\ UNCHANGED << run, ugraph, topo, bfs, pre, out, lp, Route, linkload,
                    remainedNodes, error >>
    /\ UNCHANGED hconst

\* the traffic matrices p of findMaxLinkLoad: p.sum(n, '*') <= numServer and
\* p.sum('*', n) <= numServer; the constraint matrix is totally unimodular,
\* so the maximum is met at a matrix of whole numbers
HoseMatrices ==
    LET G == Topo.UG
        comms == Commodities(G)
        most == Max({ 0 } \cup { G.numServer[n] : n \in HostNodes(G) })
    IN  { p \in [comms -> 0..most] :
            \A n \in HostNodes(G) :
               /\ Sum([sd \in { c \in comms : c[1] = n } |-> p[sd]],
                      { c \in comms : c[1] = n }) <= G.numServer[n]
               /\ Sum([sd \in { c \in comms : c[2] = n } |-> p[sd]],
                      { c \in comms : c[2] = n }) <= G.numServer[n] }

\* the loops of findMaxLinkLoad over the representatives alone (C23 must tell
\* it apart)
GroupedRepresentatives ==
    { t \in Topo.RepCommodities \X Commodities(Topo.UG) : t[2] = t[1] }

\* the pairs << repsd, sd >> of the two for loops of findMaxLinkLoad
GroupedCommodities ==
    { t \in Topo.RepCommodities \X Commodities(Topo.UG) : t[2] \in commGroup[t[1]] }

\* the link itself, without the reverse map (C5 must tell it apart)
ReverseLinkSame(link, sd) == link

\* the link whose flow of repsd is charged to sd on link
ReverseLink(link, sd) == applyGenerator(link, mapRev[sd])

\* Route.get_edge_data(*alink) is None when alink is no link of the routing
Chargeable(link) ==
    \A t \in GroupedCommodities : ReverseLink(link, t[2]) \in DOMAIN Route

\* the coefficient of p[sd] in the load of link
LoadCoefficient(link, repsd, sd) ==
    LET alink == ReverseLink(link, sd)
    IN  IF repsd \in DOMAIN Route[alink] THEN Route[alink][repsd] ELSE 0

\* m.ObjVal of findMaxLinkLoad(link), in units of 1/Scale
findMaxLinkLoad(link) ==
    Max({ Sum([t \in GroupedCommodities |->
                  p[t[2]] * LoadCoefficient(link, t[1], t[2])],
              GroupedCommodities) : p \in HoseMatrices })

\* verifyAllLinkLoad through the pool: findMaxLinkLoad for every link of
\* self.Topo.DLinks.  A task fails where its link cannot be charged or its
\* solve does not end OPTIMAL, and the failure ends the run.  These solves
\* have no time limit.
verifyAllLinkLoadPool ==
    /\ pc = "verifyAllLinkLoad"
    /\ ~ Exists(outFiles, "VerifiedThroughput")
    /\ \/ /\ \A link \in DLinks(Topo.UG) : Chargeable(link)
          /\ linkload' = [link \in DLinks(Topo.UG) |->
                             << findMaxLinkLoad(link),
                                Scale * Capacity(Topo.UG, link) >>]
          /\ lpStatus' = "OPTIMAL"
          /\ pc' = "ver_max"
          /\ error' = error
       \/ /\ \E link \in DLinks(Topo.UG) : ~ Chargeable(link)
          /\ linkload' = << >>
          /\ lpStatus' = lpStatus
          /\ pc' = "crashed"
          /\ error' = "AttributeError"
       \/ /\ \E link \in DLinks(Topo.UG) : Chargeable(link)
          /\ linkload' = << >>
          /\ lpStatus' \in OtherStatuses
          /\ pc' = "crashed"
          /\ error' = "AssertionError"
    /\ UNCHANGED << run, ugraph, topo, bfs, pre, out, X, ObjVal, Route, remainedNodes,
                    returned >>
    /\ UNCHANGED hconst

\* a pool over the representative links only (C22 must tell it apart)
verifyAllLinkLoadStartRepresentatives ==
    /\ pc = "verifyAllLinkLoad"
    /\ ~ Exists(outFiles, "VerifiedThroughput")
    /\ linkload' = << >>
    /\ pending' = Topo.RepLinkConstrs
    /\ pc' = "ver_pool"
    /\ UNCHANGED << run, ugraph, topo, cand, ci, tovisit, visited, reps, autgrp,
                    flowlinkmap, task, pre, out, lp, Route, remainedNodes, returned,
                    error >>
    /\ UNCHANGED hconst

\* The same pool, result by result: imap_unordered hands the results to the
\* for loop of verifyAllLinkLoad in the order in which the tasks complete.
verifyAllLinkLoadStart ==
    /\ pc = "verifyAllLinkLoad"
    /\ ~ Exists(outFiles, "VerifiedThroughput")
    /\ linkload' = << >>
    /\ pending' = DLinks(Topo.UG)
    /\ pc' = "ver_pool"
    /\ UNCHANGED << run, ugraph, topo, cand, ci, tovisit, visited, reps, autgrp,
                    flowlinkmap, task, pre, out, lp, Route, remainedNodes, returned,
                    error >>
    /\ UNCHANGED hconst

\* a merge that files the result under the least link not yet filed instead
\* of the link of the task (C12 must tell it apart)
verifyAllLinkLoadMergeByArrival ==
    /\ pc = "ver_pool"
    /\ \E link \in pending :
          /\ Chargeable(link)
          /\ linkload' = Dump(linkload, MinTuple(pending),
                              << findMaxLinkLoad(link), Scale * Capacity(Topo.UG, link) >>)
          /\ pending' = pending \ { MinTuple(pending) }
          /\ lpStatus' = "OPTIMAL"
          /\ pc' = "ver_pool"
          /\ error' = error
    /\ UNCHANGED << run, ugraph, topo, cand, ci, tovisit, visited, reps, autgrp,
                    flowlinkmap, task, pre, out, X, ObjVal, Route, remainedNodes,
                    returned >>
    /\ UNCHANGED hconst

\* one result of pool.imap_unordered(self.findMaxLinkLoad, self.Topo.DLinks):
\* linkload[link] = maxload / capacity; a failed task ends the run, and the
\* table, a local of verifyAllLinkLoad, is gone
verifyAllLinkLoadMerge ==
    /\ pc = "ver_pool"
    /\ \E link \in pending :
          \/ /\ Chargeable(link)
             /\ linkload' = Dump(linkload, link,
                                 << findMaxLinkLoad(link),
                                    Scale * Capacity(Topo.UG, link) >>)
             /\ pending' = pending \ { link }
             /\ lpStatus' = "OPTIMAL"
             /\ pc' = "ver_pool"
             /\ error' = error
          \/ /\ ~ Chargeable(link)
             /\ linkload' = << >>
             /\ pending' = {}
             /\ lpStatus' = lpStatus
             /\ pc' = "crashed"
             /\ error' = "AttributeError"
          \/ /\ Chargeable(link)
             /\ linkload' = << >>
             /\ pending' = {}
             /\ lpStatus' \in OtherStatuses
             /\ pc' = "crashed"
             /\ error' = "AssertionError"
    /\ UNCHANGED << run, ugraph, topo, cand, ci, tovisit, visited, reps, autgrp,
                    flowlinkmap, task, pre, out, X, ObjVal, Route, remainedNodes,
                    returned >>
    /\ UNCHANGED hconst

\* pool.close(); pool.join()
verifyAllLinkLoadJoin ==
    /\ pc = "ver_pool"
    /\ pending = {}
    /\ pc' = "ver_max"
    /\ UNCHANGED << run, ugraph, topo, bfs, pre, out, lp, post, error >>
    /\ UNCHANGED hconst

\* max(linkload.values())
MaxLoad(loads) ==
    CHOOSE a \in Range(loads) : \A b \in Range(loads) : a[1] * b[2] >= b[1] * a[2]

\* verifyAllLinkLoad after the pool, with intermediate False
verifyAllLinkLoadEnd ==
    /\ pc = "ver_max"
    /\ IF DOMAIN linkload = {}
       THEN /\ pc' = "crashed" /\ error' = "ValueError"
            /\ UNCHANGED << out, returned >>
       ELSE LET maxload == MaxLoad(linkload)
                verifiedThroughput == << maxload[2], maxload[1] >>
            IN  IF maxload[1] = 0
                THEN /\ pc' = "crashed" /\ error' = "ZeroDivisionError"
                     /\ UNCHANGED << out, returned >>
                ELSE /\ DumpOut("VerifiedThroughput", verifiedThroughput)
                     /\ returned' = << maxload, verifiedThroughput >>
                     /\ pc' = "SolutionGrouping"
                     /\ UNCHANGED << splitFiles, error >>
    /\ UNCHANGED << run, ugraph, topo, bfs, pre, lp, Route, linkload, remainedNodes >>
    /\ UNCHANGED hconst

InputGraphs == { "Ring3", "Clos", "Pendant" }

(***************************************************************************)
(* SolutionGrouping.                                                       *)
(***************************************************************************)
\* process(): group_solution is False
SolutionGroupingOff ==
    /\ pc = "SolutionGrouping"
    /\ pc' = "done"
    /\ UNCHANGED << run, ugraph, topo, bfs, pre, out, lp, post, error >>
    /\ UNCHANGED hconst

\* SolutionGrouping.__init__; where a file is missing it returns early and
\* the call of groupSolution that follows finds no remainedNodes
SolutionGroupingInit ==
    /\ pc = "SolutionGrouping"
    /\ IF Exists(outFiles, "OptimalRouting") /\ Exists(outFiles, "Topology")
       THEN LET allnodes == AllNodes(Topo.UG)
                selectedNodes == IF Exists(outFiles, "SelectedNodes")
                                 THEN outFiles["SelectedNodes"] ELSE allnodes
            IN  /\ Route' = outFiles["OptimalRouting"]
                /\ IF Exists(outFiles, "SelectedNodes")
                   THEN UNCHANGED << outFiles, outWrites >>
                   ELSE DumpOut("SelectedNodes", allnodes)
                /\ remainedNodes' = IF Exists(outFiles, "RemainedNodes")
                                    THEN outFiles["RemainedNodes"] ELSE selectedNodes
                /\ pc' = "groupSolution"
                /\ error' = error
       ELSE /\ UNCHANGED << Route, remainedNodes, outFiles, outWrites >>
            /\ pc' = "crashed"
            /\ error' = "AttributeError"
    /\ UNCHANGED << run, ugraph, topo, bfs, pre, splitFiles, lp, linkload, returned >>
    /\ HCONST' = ProcessHCONST
    /\ dirs' = MakeDirs(<< ProcessHCONST["splitgroupspath"] >>, dirs)

\* groupSolution up to the pool: allnodes = self.remainedNodes.copy()
groupSolutionBegin ==
    /\ pc = "groupSolution"
    /\ pending' = remainedNodes
    /\ pc' = "grp_pool"
    /\ UNCHANGED << run, ugraph, topo, cand, ci, tovisit, visited, reps, autgrp,
                    flowlinkmap, task, pre, out, lp, post, error >>
    /\ UNCHANGED hconst

\* flowlinkmap[alink] of encodeFlows is a KeyError where alink is no link
Encodable(node, repsd, sd) ==
    \A nh \in Neighbors(Topo.UG, node) :
        ReverseLink(<< node, nh >>, sd) \in DOMAIN flowLinkMapFile[repsd]

\* encodeFlows: the entries (link, repflowlink, flow); sorting a list of
\* entries with distinct links fixes its order, so the set stands for the tuple
encodeFlows(node, repsd, sd) ==
    LET links == { << node, nh >> : nh \in Neighbors(Topo.UG, node) }
        repflowlink(link) == flowLinkMapFile[repsd][ReverseLink(link, sd)]
    IN  { << link, repflowlink(link), Route[repflowlink(link)][repsd] >> :
            link \in { l \in links : repsd \in DOMAIN Route[repflowlink(l)] } }

\* split groups that put a whole orbit under the signature of its
\* representative (C11 must tell it apart)
SplitGroupsAtOrbit(node) ==
    [repsd \in Topo.RepCommodities |->
        [code \in { encodeFlows(node, repsd, repsd) } |-> commGroup[repsd]]]

\* splitgroups of groupSolutionAtNode: repsd -> (code -> commodities)
SplitGroupsAt(node) ==
    [repsd \in Topo.RepCommodities |->
        LET codeof == [autsd \in commGroup[repsd] |-> encodeFlows(node, repsd, autsd)]
        IN  [code \in Range(codeof) |->
                { autsd \in commGroup[repsd] : codeof[autsd] = code }]]

\* countRouteInfoAtNode: the groups with an empty code are left out
countRouteInfoAtNode(splitgroups) ==
    LET counted == { t \in { << repsd, code >> : repsd \in DOMAIN splitgroups,
                                code \in UNION { DOMAIN splitgroups[r] :
                                                   r \in DOMAIN splitgroups } } :
                       t[2] \in DOMAIN splitgroups[t[1]] /\ t[2] # {} }
    IN  [all |-> Sum([t \in counted |-> Cardinality(splitgroups[t[1]][t[2]])], counted),
         compact |-> Cardinality(counted)]

\* one result of pool.imap_unordered(self.groupSolutionAtNode, allnodes)
groupSolutionAtNode ==
    /\ pc = "grp_pool"
    /\ \E node \in pending :
          IF \A repsd \in Topo.RepCommodities : \A autsd \in commGroup[repsd] :
                Encodable(node, repsd, autsd)
          THEN /\ LET splitgroups == SplitGroupsAt(node)
                  IN  splitFiles' =
                         Dump(Dump(splitFiles, << "SplitGroupsAtNodes", node >>,
                                   splitgroups),
                              << "CountRouteInfo", node >>,
                              countRouteInfoAtNode(splitgroups))
               /\ remainedNodes' = remainedNodes \ { node }
               /\ DumpOut("RemainedNodes", remainedNodes \ { node })
               /\ pending' = pending \ { node }
               /\ pc' = "grp_pool"
               /\ error' = error
          ELSE /\ UNCHANGED << out, remainedNodes, pending >>
               /\ pc' = "crashed"
               /\ error' = "KeyError"
    /\ UNCHANGED << run, ugraph, topo, cand, ci, tovisit, visited, reps, autgrp,
                    flowlinkmap, task, pre, lp, Route, linkload, returned >>
    /\ UNCHANGED hconst


(***************************************************************************)
(* groupSolution step by step: a task of the pool writes the two files of  *)
(* its node, and the for loop of groupSolution takes the node off          *)
(* remainedNodes when the task has returned.  tovisit holds the nodes      *)
(* whose SplitGroupsAtNodes is written and whose task has not yet written  *)
(* CountRouteInfo, visited the nodes whose task has returned and that the  *)
(* for loop has not yet met.                                               *)
(***************************************************************************)
\* mp.Pool(self.numThread): the number of tasks that run at a time
NumThread == 2

\* groupSolutionAtNode(node) up to pickle.dump(splitgroups, ...); the pool hands
\* the nodes of allnodes to its workers in their order, so a task runs only
\* when fewer than NumThread tasks of earlier nodes have not returned
groupSolutionSplit ==
    /\ pc = "grp_pool"
    /\ \E node \in pending \ (tovisit \cup visited) :
          /\ Cardinality({ m \in pending \ visited : m < node }) < NumThread
          /\ IF \A repsd \in Topo.RepCommodities : \A autsd \in commGroup[repsd] :
                Encodable(node, repsd, autsd)
             THEN /\ splitFiles' = Dump(splitFiles, << "SplitGroupsAtNodes", node >>,
                                        SplitGroupsAt(node))
                  /\ tovisit' = tovisit \cup { node }
                  /\ pc' = "grp_pool"
                  /\ error' = error
             ELSE /\ UNCHANGED << splitFiles, tovisit >>
                  /\ pc' = "crashed"
                  /\ error' = "KeyError"
    /\ UNCHANGED << run, ugraph, topo, cand, ci, visited, reps, autgrp, flowlinkmap,
                    pending, task, pre, outFiles, outWrites, lp, post >>
    /\ UNCHANGED hconst

\* self.countRouteInfoAtNode(splitgroups, node); return node
groupSolutionCount ==
    /\ pc = "grp_pool"
    /\ \E node \in tovisit :
          /\ splitFiles' = Dump(splitFiles, << "CountRouteInfo", node >>,
                                countRouteInfoAtNode(
                                    splitFiles[<< "SplitGroupsAtNodes", node >>]))
          /\ tovisit' = tovisit \ { node }
          /\ visited' = visited \cup { node }
    /\ UNCHANGED << run, ugraph, pc, topo, cand, ci, reps, autgrp, flowlinkmap,
                    pending, task, pre, outFiles, outWrites, lp, post, error >>
    /\ UNCHANGED hconst

\* a loop that takes the node off when the task has written its first file
\* (C29 must tell it apart)
groupSolutionMergeEarly ==
    /\ pc = "grp_pool"
    /\ \E node \in tovisit \cup visited :
          /\ remainedNodes' = remainedNodes \ { node }
          /\ DumpOut("RemainedNodes", remainedNodes \ { node })
          /\ pending' = pending \ { node }
          /\ visited' = visited \ { node }
          /\ tovisit' = tovisit \ { node }
    /\ UNCHANGED << run, ugraph, pc, topo, cand, ci, reps, autgrp, flowlinkmap,
                    task, pre, splitFiles, lp, Route, linkload, returned, error >>
    /\ UNCHANGED hconst

\* one turn of the for loop of groupSolution: self.remainedNodes.remove(node)
\* and the dump of RemainedNodes
groupSolutionMerge ==
    /\ pc = "grp_pool"
    /\ \E node \in visited :
          /\ remainedNodes' = remainedNodes \ { node }
          /\ DumpOut("RemainedNodes", remainedNodes \ { node })
          /\ pending' = pending \ { node }
          /\ visited' = visited \ { node }
    /\ UNCHANGED << run, ugraph, pc, topo, cand, ci, tovisit, reps, autgrp, flowlinkmap,
                    task, pre, splitFiles, lp, Route, linkload, returned, error >>
    /\ UNCHANGED hconst

\* groupSolution after the pool: getStatCountInfo divides compact by all for
\* every node of Topo.AllNodes
getStatCountInfo ==
    /\ pc = "grp_pool"
    /\ pending = {}
    /\ IF remainedNodes # {}
       THEN pc' = "done" /\ error' = error
       ELSE IF \E node \in AllNodes(Topo.UG) :
                  ~ Exists(splitFiles, << "CountRouteInfo", node >>)
            THEN pc' = "crashed" /\ error' = "FileNotFoundError"
            ELSE IF \E node \in AllNodes(Topo.UG) :
                       splitFiles[<< "CountRouteInfo", node >>].all = 0
                 THEN pc' = "crashed" /\ error' = "ZeroDivisionError"
                 ELSE pc' = "done" /\ error' = error
    /\ UNCHANGED << run, ugraph, topo, bfs, pre, out, lp, post >>
    /\ UNCHANGED hconst

(***************************************************************************)
(* The program is started again; the files stay, the memory does not.      *)
(***************************************************************************)
StartRun ==
    /\ pc \in { "done", "crashed" }
    /\ run < MaxRuns
    /\ run' = run + 1
    /\ ugraph' \in InputGraphs
    /\ pc' = "setUGraph"
    /\ UG' = NoGraph /\ Autgen' = << >> /\ RepCommodities' = {}
    /\ RepCommFlowLinks' = << >> /\ RepAuxiliarys' = {} /\ RepLinkConstrs' = {}
    /\ ClearLocals
    /\ lpStatus' = "" /\ X' = << >> /\ ObjVal' = 0
    /\ Route' = << >> /\ linkload' = << >> /\ remainedNodes' = {} /\ returned' = << >>
    /\ error' = ""
    /\ UNCHANGED << pre, out >>
    /\ UNCHANGED hconst

\* the state before the first run on one of the graphs
InitWith(graphs) ==
    /\ pc = "setUGraph"
    /\ run = 1
    /\ ugraph \in graphs
    /\ UG = NoGraph /\ Autgen = << >> /\ RepCommodities = {}
    /\ RepCommFlowLinks = << >> /\ RepAuxiliarys = {} /\ RepLinkConstrs = {}
    /\ cand = << >> /\ ci = 1 /\ tovisit = {} /\ visited = {} /\ reps = {}
    /\ autgrp = {} /\ flowlinkmap = << >> /\ pending = {} /\ task = << >>
    /\ stageData = NoFiles /\ stageWrites = NoFiles
    /\ commGroup = NoFiles /\ mapFwd = NoFiles /\ mapRev = NoFiles
    /\ flowLinkMapFile = NoFiles /\ auxGroup = NoFiles /\ auxToRep = NoFiles
    /\ outFiles = NoFiles /\ outWrites = NoFiles /\ splitFiles = NoFiles
    /\ lpStatus = "" /\ X = << >> /\ ObjVal = 0
    /\ Route = << >> /\ linkload = << >> /\ remainedNodes = {} /\ returned = << >>
    /\ error = ""
    /\ HCONST = ProcessHCONST /\ dirs = ProcessDirs

TopologyNext ==
    \/ setUGraph
    \/ findAutomorphicGenerators
    \/ RCBegin \/ RCSkip \/ RCSeed \/ RCPop \/ RCSaveGroup \/ RCFinish
    \/ FLBegin \/ FLTask \/ FLSkip \/ FLSeed \/ FLPop \/ FLEndWhile \/ FLReturn \/ FLFinish
    \/ RABegin \/ RASkip \/ RASeed \/ RAPop \/ RASaveGroup \/ RAFinish
    \/ computeAuxReverseMap
    \/ findRepresentativeLinkConstrs

OptimizationNext ==
    \/ dumpTopoComputationTime
    \/ OptimizationInit
    \/ optimizeSkip
    \/ computeOptimalSolution
    \/ dumpComputedThroughput \/ dumpOptimizationTime \/ saveOptimalRouting
    \/ saveIntermediateRouting

VerificationNext ==
    \/ VerificationOff
    \/ VerificationInit
    \/ verifyAllLinkLoadCached
    \/ verifyAllLinkLoadPool
    \/ verifyAllLinkLoadEnd

GroupingNext ==
    \/ SolutionGroupingOff
    \/ SolutionGroupingInit
    \/ groupSolutionBegin
    \/ groupSolutionAtNode
    \/ getStatCountInfo

Next == TopologyNext \/ OptimizationNext \/ VerificationNext \/ GroupingNext \/ StartRun

Init == InitWith(InputGraphs)

Spec == Init /\ [][Next]_vars

\* the construction of the Topology object alone, on more graphs
TopologyGraphs == { "Ring3", "Ring4", "Grid1x3", "Clos", "Mixed", "Pendant" }

InitTopology == InitWith(TopologyGraphs)

SpecTopology == InitTopology /\ [][TopologyNext]_vars


\* the steps of the three orbit traversals
TraversalNext ==
    \/ RCSkip \/ RCSeed \/ RCPop \/ RCSaveGroup \/ RCFinish
    \/ FLTask \/ FLSkip \/ FLSeed \/ FLPop \/ FLEndWhile \/ FLReturn \/ FLFinish
    \/ RASkip \/ RASeed \/ RAPop \/ RASaveGroup \/ RAFinish

\* the construction of the Topology object by a process that, inside a
\* traversal, goes on to its next step as long as it has one: no step of a
\* traversal waits for anything
TerminationGraphs == { "Ring3", "Clos", "Pendant" }

InitTermination == InitWith(TerminationGraphs)

SpecTermination == InitTermination /\ [][TopologyNext]_vars /\ WF_vars(TraversalNext)

\* the construction up to the end of findRepresentativeCommodities, on graphs
\* with commodities that several automorphisms take to the same commodity
CommodityGraphs == { "Ring3", "Ring4", "Clos" }

InitCommodities == InitWith(CommodityGraphs)

CommoditiesNext ==
    \/ setUGraph
    \/ findAutomorphicGenerators
    \/ RCBegin \/ RCSkip \/ RCSeed \/ RCPop \/ RCSaveGroup \/ RCFinish

SpecCommodities == InitCommodities /\ [][CommoditiesNext]_vars

\* one run in which the results of the verification pool are merged one by
\* one, in every order of completion
PoolsNext ==
    \/ TopologyNext
    \/ dumpTopoComputationTime
    \/ OptimizationInit
    \/ computeOptimalSolution
    \/ dumpComputedThroughput \/ dumpOptimizationTime \/ saveOptimalRouting
    \/ saveIntermediateRouting
    \/ VerificationOff
    \/ VerificationInit
    \/ verifyAllLinkLoadStart
    \/ verifyAllLinkLoadMerge
    \/ verifyAllLinkLoadJoin
    \/ verifyAllLinkLoadEnd
    \/ GroupingNext

PoolGraphs == { "Clos", "Pendant" }

InitPools == InitWith(PoolGraphs)

SpecPools == InitPools /\ [][PoolsNext]_vars


\* findRepresentativeCommodities on the complete graph on 4 nodes, whose
\* automorphism group is the whole symmetric group: the graph and the
\* generators are those the earlier stages have stored, the generators being
\* a generating set that holds a transposition, in either order
IsTransposition(p) == Cardinality({ k \in DOMAIN p : p[k] # k }) = 2

CliqueGenerators ==
    UNION { Orders(S) : S \in { T \in GeneratorSets(generateClique(4)) :
                                   \E p \in T : IsTransposition(p) } }

InitClique ==
    /\ pc = "findRepresentativeCommodities"
    /\ run = 1
    /\ ugraph = "Clique4"
    /\ UG = generateClique(4)
    /\ Autgen \in CliqueGenerators
    /\ RepCommodities = {}
    /\ RepCommFlowLinks = << >> /\ RepAuxiliarys = {} /\ RepLinkConstrs = {}
    /\ cand = << >> /\ ci = 1 /\ tovisit = {} /\ visited = {} /\ reps = {}
    /\ autgrp = {} /\ flowlinkmap = << >> /\ pending = {} /\ task = << >>
    /\ stageData = Dump(Dump(NoFiles, "setUGraph", UG), "findAutomorphicGenerator", Autgen)
    /\ stageWrites = Dump(Dump(NoFiles, "setUGraph", 1), "findAutomorphicGenerator", 1)
    /\ commGroup = NoFiles /\ mapFwd = NoFiles /\ mapRev = NoFiles
    /\ flowLinkMapFile = NoFiles /\ auxGroup = NoFiles /\ auxToRep = NoFiles
    /\ outFiles = NoFiles /\ outWrites = NoFiles /\ splitFiles = NoFiles
    /\ lpStatus = "" /\ X = << >> /\ ObjVal = 0
    /\ Route = << >> /\ linkload = << >> /\ remainedNodes = {} /\ returned = << >>
    /\ error = ""
    /\ HCONST = ProcessHCONST /\ dirs = ProcessDirs

CliqueNext == RCBegin \/ RCSkip \/ RCSeed \/ RCPop \/ RCSaveGroup \/ RCFinish

SpecClique == InitClique /\ [][CliqueNext]_vars


\* A run that is interrupted and run again.  The process is stopped between
\* two of its steps: what it held in memory is gone, the files stay.
Interrupt ==
    /\ pc \notin { "done", "crashed" }
    /\ pc' = "crashed"
    /\ error' = "KeyboardInterrupt"
    /\ UG' = NoGraph /\ Autgen' = << >> /\ RepCommodities' = {}
    /\ RepCommFlowLinks' = << >> /\ RepAuxiliarys' = {} /\ RepLinkConstrs' = {}
    /\ ClearLocals
    /\ lpStatus' = "" /\ X' = << >> /\ ObjVal' = 0
    /\ Route' = << >> /\ linkload' = << >> /\ remainedNodes' = {} /\ returned' = << >>
    /\ UNCHANGED << run, ugraph, pre, out >>
    /\ UNCHANGED hconst

ResumeGraphs == { "Clos" }

\* process() is called again on the graph, over the files of the run before
Rerun ==
    /\ pc \in { "done", "crashed" }
    /\ run < MaxRuns
    /\ run' = run + 1
    /\ ugraph' \in ResumeGraphs
    /\ pc' = "setUGraph"
    /\ UG' = NoGraph /\ Autgen' = << >> /\ RepCommodities' = {}
    /\ RepCommFlowLinks' = << >> /\ RepAuxiliarys' = {} /\ RepLinkConstrs' = {}
    /\ ClearLocals
    /\ lpStatus' = "" /\ X' = << >> /\ ObjVal' = 0
    /\ Route' = << >> /\ linkload' = << >> /\ remainedNodes' = {} /\ returned' = << >>
    /\ error' = ""
    /\ UNCHANGED << pre, out >>
    /\ UNCHANGED hconst

InitResume == InitWith(ResumeGraphs)

ResumeNext ==
    \/ TopologyNext \/ OptimizationNext \/ VerificationNext \/ GroupingNext
    \/ Interrupt
    \/ Rerun

SpecResume == InitResume /\ [][ResumeNext]_vars


\* process(G, toponame, False, True), interrupted or not, in which the tasks
\* of groupSolution and its for loop are taken step by step
GroupingStepsNext ==
    \/ TopologyNext \/ OptimizationNext
    \/ VerificationOff
    \/ SolutionGroupingInit
    \/ groupSolutionBegin
    \/ groupSolutionSplit
    \/ groupSolutionCount
    \/ groupSolutionMerge
    \/ getStatCountInfo
    \/ Interrupt
    \/ Rerun

SpecGrouping == InitResume /\ [][GroupingStepsNext]_vars

\* a caller of state_helper alone: HCONST as imported, on a file system without
\* the directories or with those an earlier run of process() has made
InitHelper ==
    /\ pc = "helper"
    /\ run = 1
    /\ ugraph = NoInput
    /\ UG = NoGraph /\ Autgen = << >> /\ RepCommodities = {}
    /\ RepCommFlowLinks = << >> /\ RepAuxiliarys = {} /\ RepLinkConstrs = {}
    /\ cand = << >> /\ ci = 1 /\ tovisit = {} /\ visited = {} /\ reps = {}
    /\ autgrp = {} /\ flowlinkmap = << >> /\ pending = {} /\ task = << >>
    /\ stageData = NoFiles /\ stageWrites = NoFiles
    /\ commGroup = NoFiles /\ mapFwd = NoFiles /\ mapRev = NoFiles
    /\ flowLinkMapFile = NoFiles /\ auxGroup = NoFiles /\ auxToRep = NoFiles
    /\ outFiles = NoFiles /\ outWrites = NoFiles /\ splitFiles = NoFiles
    /\ lpStatus = "" /\ X = << >> /\ ObjVal = 0
    /\ Route = << >> /\ linkload = << >> /\ remainedNodes = {} /\ returned = << >>
    /\ error = ""
    /\ HCONST = ImportedHCONST
    /\ dirs \in { {}, ProcessDirs }

HelperNext ==
    \/ callHelper
    \/ initHCONST
    \/ makePrecomputationDirectory
    \/ makeOutputDirectory
    \/ makeSplitGroupsDirectory

SpecHelper == InitHelper /\ [][HelperNext]_vars

\* one run up to the end of optimize(), on graphs with links that are no
\* flow-link representatives (Clos, Pendants), with a node that cannot route
\* (Mixed) and with links of different capacities (Pendants)
RoutingGraphs == { "Clos", "Mixed", "Pendants" }

InitRouting == InitWith(RoutingGraphs)

RoutingNext ==
    \/ TopologyNext
    \/ dumpTopoComputationTime
    \/ OptimizationInit
    \/ computeOptimalSolution
    \/ dumpComputedThroughput \/ dumpOptimizationTime \/ saveOptimalRouting
    \/ saveIntermediateRouting

SpecRouting == InitRouting /\ [][RoutingNext]_vars


(***************************************************************************)
(* What the stored files say once a stage has written its checkpoint.      *)
(***************************************************************************)
StageDone(name) == Exists(stageData, name)
StoredUG == stageData["setUGraph"]
StoredGens == Range(stageData["findAutomorphicGenerator"])
StoredRepCommodities == stageData["findRepresentativeCommodities"]
StoredRepAuxiliarys == stageData["findRepresentativeAuxs"]

\* C1: once findRepresentativeCommodities and findRepresentativeAuxs have
\* completed, every stored commodity group and every stored auxiliary group
\* is closed under every generator of Autgen: the image of a member under a
\* generator is a member of the same group.
C1_OrbitsClosed ==
    /\ StageDone("findRepresentativeCommodities") =>
          \A repsd \in StoredRepCommodities : \A o \in commGroup[repsd] :
             \A g \in StoredGens : applyGenerator(o, g) \in commGroup[repsd]
    /\ StageDone("findRepresentativeAuxs") =>
          \A repaux \in StoredRepAuxiliarys : \A o \in auxGroup[repaux] :
             \A g \in StoredGens : applyGenerator(o, g) \in auxGroup[repaux]

\* both stages are complete, with two generators and groups of several members
C1_Witness ==
    /\ pc = "computeAuxReverseMap"
    /\ Len(Autgen) = 2
    /\ \E repsd \in RepCommodities : Cardinality(commGroup[repsd]) > 2
    /\ \E repaux \in RepAuxiliarys : Cardinality(auxGroup[repaux]) > 2

\* C2: once the orbit reduction has completed, every commodity is a member
\* of the stored group of exactly one representative commodity, and every
\* auxiliary index (u, i, j) is a member of the stored group of exactly one
\* representative auxiliary index; the groups hold nothing else.
C2_GroupsPartition ==
    /\ StageDone("findRepresentativeCommodities") =>
          /\ \A sd \in Commodities(StoredUG) :
                Cardinality({ r \in StoredRepCommodities : sd \in commGroup[r] }) = 1
          /\ \A r \in StoredRepCommodities : commGroup[r] \subseteq Commodities(StoredUG)
    /\ StageDone("findRepresentativeAuxs") =>
          /\ \A aux \in AuxIndice(StoredUG) :
                Cardinality({ r \in StoredRepAuxiliarys : aux \in auxGroup[r] }) = 1
          /\ \A r \in StoredRepAuxiliarys : auxGroup[r] \subseteq AuxIndice(StoredUG)

\* both reductions are complete and each has found several groups of
\* several members
C2_Witness ==
    /\ pc = "computeAuxReverseMap"
    /\ Cardinality(RepCommodities) > 1
    /\ \E r \in RepCommodities : Cardinality(commGroup[r]) > 1
    /\ Cardinality(RepAuxiliarys) > 1
    /\ \E r \in RepAuxiliarys : Cardinality(auxGroup[r]) > 1

\* the maps stored for commodity m take representative r to m and back
RoundTrip(r, m) ==
    /\ applyGenerator(r, mapFwd[m]) = m
    /\ applyGenerator(m, mapRev[m]) = r
    /\ \A i \in DOMAIN mapFwd[m] : mapRev[m][mapFwd[m][i]] = i

\* C3: for every commodity m with representative r, the forward map f stored
\* for m takes r to m, the stored reverse map takes m to r, and rev[f[i]] = i
\* for every node i.  This holds once the stage has completed, and during the
\* traversal of r's orbit for every commodity reached so far, in whatever
\* order the entries are popped and however often m's maps were written.
C3_MapsRoundTrip ==
    /\ StageDone("findRepresentativeCommodities") =>
          \A r \in StoredRepCommodities : \A m \in commGroup[r] : RoundTrip(r, m)
    /\ pc = "rc_while" =>
          \A m \in autgrp \cup { e[1] : e \in tovisit } : RoundTrip(cand[ci], m)

\* commodity m is on the to-visit set from two parents, which wrote different
\* maps for it
C3_Witness ==
    /\ pc = "rc_while"
    /\ \E e1, e2 \in tovisit :
          /\ e1[1] = e2[1]
          /\ e1[2] # e2[2]
          /\ \E g1, g2 \in Range(Autgen) :
                /\ applyGenerator(e1[2], g1) = e1[1]
                /\ applyGenerator(e2[2], g2) = e1[1]
                /\ applyGenerator(mapFwd[e1[2]], g1) # applyGenerator(mapFwd[e2[2]], g2)

\* the flow of commodity sd on link l in the routing R: R[rev_sd(l)][rep(sd)],
\* and 0 where the entry is absent
ExpandedFlow(R, repsd, sd, l) ==
    LET alink == applyGenerator(l, mapRev[sd])
    IN  IF alink \in DOMAIN R /\ repsd \in DOMAIN R[alink] THEN R[alink][repsd] ELSE 0

InflowAt(R, repsd, sd, n) ==
    Sum([h \in Neighbors(StoredUG, n) |-> ExpandedFlow(R, repsd, sd, << h, n >>)],
        Neighbors(StoredUG, n))

OutflowAt(R, repsd, sd, n) ==
    Sum([h \in Neighbors(StoredUG, n) |-> ExpandedFlow(R, repsd, sd, << n, h >>)],
        Neighbors(StoredUG, n))

Conserving(R) ==
    \A repsd \in StoredRepCommodities : \A sd \in commGroup[repsd] :
       \A n \in AllNodes(StoredUG) \ { sd[1], sd[2] } :
          InflowAt(R, repsd, sd, n) = OutflowAt(R, repsd, sd, n)

\* C4: for any values of the reduced flow variables that meet the reduced
\* flow-conservation constraints, the routing that saveOptimalRouting builds
\* from them, expanded to any commodity sd through sd's stored reverse map,
\* has as much inflow as outflow at every node other than sd's source and
\* destination; so has the OptimalRouting file.
C4_FlowConserved ==
    /\ pc = "optimize" => \A F \in FeasibleFlows : Conserving(BuildRouting(F))
    /\ Exists(outFiles, "OptimalRouting") => Conserving(outFiles["OptimalRouting"])

\* OptimalRouting is written and a commodity other than its representative
\* has flow through a node that is neither its source nor its destination
C4_Witness ==
    /\ Exists(outFiles, "OptimalRouting")
    /\ StageDone("findRepresentativeCommodities")
    /\ \E repsd \in StoredRepCommodities : \E sd \in commGroup[repsd] \ { repsd } :
          \E n \in AllNodes(StoredUG) \ { sd[1], sd[2] } :
             InflowAt(outFiles["OptimalRouting"], repsd, sd, n) > 0

\* C5: the verified throughput written by verifyAllLinkLoad is not above the
\* throughput reported by the reduced linear program (1 / objective value),
\* and it equals it.
C5_VerifiedMeetsReported ==
    (Exists(outFiles, "VerifiedThroughput") /\ Exists(outFiles, "ComputedThroughput")) =>
        LET verified == outFiles["VerifiedThroughput"]
            reported == outFiles["ComputedThroughput"]
        IN  /\ verified[1] * reported[2] <= reported[1] * verified[2]
            /\ verified[1] * reported[2] = reported[1] * verified[2]

\* verifyAllLinkLoad has solved the link problems of a routing in which a
\* representative stands for several commodities, and has returned
C5_Witness ==
    /\ pc = "SolutionGrouping"
    /\ returned # NoValue
    /\ returned[2] = outFiles["VerifiedThroughput"]
    /\ Exists(outFiles, "ComputedThroughput")
    /\ \E repsd \in RepCommodities : Cardinality(commGroup[repsd]) > 1

\* the checkpointed stages of the Topology: where the stage starts, its
\* checkpoint, and where the run goes on
Stages ==
    { << "setUGraph", "setUGraph", "findAutomorphicGenerators" >>,
      << "findAutomorphicGenerators", "findAutomorphicGenerator",
         "findRepresentativeCommodities" >>,
      << "findRepresentativeCommodities", "findRepresentativeCommodities",
         "findRepresentativeCommodityFlowLinks" >>,
      << "findRepresentativeCommodityFlowLinks", "findRepresentativeCommodityFlowLinks",
         "findRepresentativeAuxs" >>,
      << "findRepresentativeAuxs", "findRepresentativeAuxs", "computeAuxReverseMap" >>,
      << "findRepresentativeLinkConstrs", "findRepresentativeLinkConstrs",
         "TopoComputationTime" >> }

\* a step of a stage whose checkpoint exists writes no file, starts no
\* traversal and no solve, and hands the run to what follows the stage
SkipsWhereCheckpointed ==
    /\ \A st \in Stages :
          (pc = st[1] /\ Exists(stageData, st[2])) =>
              (pre' = pre /\ out' = out /\ bfs' = bfs /\ lp' = lp /\ pc' = st[3])
    /\ (pc = "optimize" /\ Exists(outFiles, "ComputedThroughput")) =>
          (pre' = pre /\ out' = out /\ bfs' = bfs /\ lp' = lp /\ pc' = "Verification")

\* C6: a checkpointed stage (setUGraph, findAutomorphicGenerators,
\* findRepresentativeCommodities, findRepresentativeCommodityFlowLinks,
\* findRepresentativeAuxs, findRepresentativeLinkConstrs, optimize) whose
\* checkpoint exists when it starts recomputes nothing and writes nothing,
\* whatever graph the run was handed; over all runs no stage checkpoint is
\* written more than once.
C6_CheckpointsWrittenOnce ==
    /\ [][SkipsWhereCheckpointed]_vars
    /\ [](\A name \in DOMAIN stageWrites : stageWrites[name] <= 1)
    /\ [](WritesOf("ComputedThroughput") <= 1)

\* a second run, handed another graph than the one of the checkpoints, has
\* gone through all stages of the Topology and wrote no checkpoint again
C6_Witness ==
    /\ run = 2
    /\ pc = "TopoComputationTime"
    /\ Graph(ugraph) # UG
    /\ UG = StoredUG
    /\ \A st \in Stages : stageWrites[st[2]] = 1

\* C7: when the main solve ends with the time-limit status and holds
\* solution values, optimize() ends without an error and both
\* IntermediateRouting and IntermediateSolution are stored.
C7_TimeLimitNonFatal ==
    (lpStatus = "TIME_LIMIT" /\ DOMAIN X # {} /\ pc # "saveIntermediateRouting") =>
        /\ pc # "crashed"
        /\ error = ""
        /\ Exists(outFiles, "IntermediateRouting")
        /\ Exists(outFiles, "IntermediateSolution")

\* a step in which the main solve, or a link solve of the verification, ends
\* with a status other than OPTIMAL and TIME_LIMIT ends the run with an error
\* and writes no file
AbortsOnOtherStatus ==
    ((pc = "optimize" \/ pc = "verifyAllLinkLoad") /\ lpStatus' \in OtherStatuses) =>
        (pc' = "crashed" /\ error' # "" /\ out' = out)

\* C8: when the main solve ends with a status other than optimal and
\* time-limit the run aborts and none of ComputedThroughput, OptimalRouting
\* and IntermediateRouting is written; when a link solve of the verification
\* ends with a status other than optimal the run aborts and neither
\* VerifiedThroughput nor VerifiedIntermediateThroughput is written.
C8_OtherStatusAborts == [][AbortsOnOtherStatus]_vars

\* a link solve of the verification of a stored routing ended with another
\* status: the run has ended and no verified throughput is stored
C8_Witness ==
    /\ pc = "crashed"
    /\ lpStatus \in OtherStatuses
    /\ error = "AssertionError"
    /\ Exists(outFiles, "OptimalRouting")
    /\ ~ Exists(outFiles, "VerifiedThroughput")

\* C9: where VerifiedThroughput exists when verifyAllLinkLoad is called, the
\* caller gets the stored verified throughput back.
C9_CachedValueReturned ==
    (pc = "SolutionGrouping" /\ DOMAIN Route # {} /\ Exists(outFiles, "VerifiedThroughput")) =>
        /\ returned # NoValue
        /\ returned[Len(returned)] = outFiles["VerifiedThroughput"]

\* C10: the counts that countRouteInfoAtNode writes for a node satisfy
\* 0 < compact <= all, whatever the node and the routing, also for a node
\* over which no commodity has positive outgoing flow.
C10_CountsPositive ==
    \A k \in DOMAIN splitFiles :
        k[1] = "CountRouteInfo" =>
            (0 < splitFiles[k].compact /\ splitFiles[k].compact <= splitFiles[k].all)

\* the groups (representative, signature) of the stored split groups sg that
\* hold commodity sd
GroupsOf(sg, sd) ==
    { t \in UNION { { << r, code >> : code \in DOMAIN sg[r] } : r \in DOMAIN sg } :
        sd \in sg[t[1]][t[2]] }

\* C11: in the split groups stored for a node, every commodity is in exactly
\* one group, and two commodities are in the same group exactly when they are
\* in the orbit of the same representative commodity and encodeFlows gives
\* them the same signature at that node; so commodities of different
\* representatives share no group.
C11_GroupedBySignature ==
    (DOMAIN Route # {} /\ Exists(outFiles, "Topology")) =>
        \A k \in DOMAIN splitFiles :
            k[1] = "SplitGroupsAtNodes" =>
                LET sg == splitFiles[k]
                    node == k[2]
                IN  /\ \A sd \in Commodities(Topo.UG) : Cardinality(GroupsOf(sg, sd)) = 1
                    /\ \A sd1, sd2 \in Commodities(Topo.UG) :
                          (GroupsOf(sg, sd1) = GroupsOf(sg, sd2)) <=>
                              \E r \in Topo.RepCommodities :
                                 /\ sd1 \in commGroup[r] /\ sd2 \in commGroup[r]
                                 /\ encodeFlows(node, r, sd1) = encodeFlows(node, r, sd2)

\* the split groups of a node are stored, with an orbit that falls into
\* several groups there, one of them of several commodities and one of them
\* of a signature with flow
C11_Witness ==
    /\ DOMAIN Route # {}
    /\ \E k \in DOMAIN splitFiles :
          /\ k[1] = "SplitGroupsAtNodes"
          /\ \E r \in DOMAIN splitFiles[k] :
                /\ Cardinality(DOMAIN splitFiles[k][r]) > 1
                /\ \E code \in DOMAIN splitFiles[k][r] :
                      Cardinality(splitFiles[k][r][code]) > 1
                /\ \E code \in DOMAIN splitFiles[k][r] : code # {}

\* what the tasks of findRepresentativeCommodityFlowLinks return, by
\* representative commodity: the least link of every class of directed links
\* under the generators that fix both ends of the commodity
MergedFlowLinks ==
    [repsd \in RepCommodities |->
        { MinTuple(Generated(StabilizerGens(repsd), { l })) : l \in DLinks(UG) }]

\* what the tasks of verifyAllLinkLoad return, by link
MergedLinkLoad ==
    [link \in DLinks(Topo.UG) |->
        << findMaxLinkLoad(link), Scale * Capacity(Topo.UG, link) >>]

\* C12: what the initiating process has merged when a pool has completed
\* does not depend on the order in which the tasks completed:
\* RepCommFlowLinks holds for every representative commodity the result of
\* its task, the load table of verifyAllLinkLoad holds for every link the
\* result of its task, and the remaining nodes stored at the end of
\* groupSolution are none.
C12_MergeOrderFree ==
    /\ pc = "findRepresentativeAuxs" =>
          /\ RepCommFlowLinks = MergedFlowLinks
          /\ stageData["findRepresentativeCommodityFlowLinks"] = MergedFlowLinks
    /\ pc = "ver_max" => linkload = MergedLinkLoad
    /\ (pc = "grp_pool" /\ pending = {}) =>
          /\ remainedNodes = {}
          /\ Exists(outFiles, "RemainedNodes") => outFiles["RemainedNodes"] = {}

\* the three pools of a run have completed: several flow-link tasks, link
\* tasks with different results, and several node tasks were merged
C12_Witness ==
    /\ pc = "grp_pool"
    /\ pending = {}
    /\ Cardinality(DOMAIN RepCommFlowLinks) > 1
    /\ Cardinality(Range(linkload)) > 1
    /\ WritesOf("RemainedNodes") > 1

\* the orbit of a directed link under the group generated by Autgen
LinkOrbit(link) == Generated(Range(Autgen), { link })

\* the auxiliary maps of this run are written and the generators are loaded
LinkConstrsReady == pc \in { "findRepresentativeLinkConstrs", "TopoComputationTime" }

\* C13: two directed links in the same orbit under the group generated by
\* Autgen get the same count vector from encodeLinkConstraint, and so lie in
\* the same class of findRepresentativeLinkConstrs.
C13_OrbitSharesSignature ==
    LinkConstrsReady =>
        \A l1 \in DLinks(UG) : \A l2 \in LinkOrbit(l1) :
            /\ encodeLinkConstraint(l1) = encodeLinkConstraint(l2)
            /\ \E c \in LinkClasses : l1 \in c /\ l2 \in c

\* the classes are formed on a graph with generators, an orbit of several
\* links and several classes
C13_Witness ==
    /\ pc = "TopoComputationTime"
    /\ Len(Autgen) > 0
    /\ \E l \in DLinks(UG) : Cardinality(LinkOrbit(l)) > 1
    /\ Cardinality(LinkClasses) > 1
    /\ Cardinality(RepLinkConstrs) > 1

\* C14: where there is a host node, two directed links with the same count
\* vector lie in the same orbit under the group generated by Autgen, and
\* RepLinkConstrs holds exactly one link of every orbit of directed links.
C14_SignatureSharesOrbit ==
    (LinkConstrsReady /\ HostNodes(UG) # {}) =>
        /\ \A l1, l2 \in DLinks(UG) :
              encodeLinkConstraint(l1) = encodeLinkConstraint(l2) => l2 \in LinkOrbit(l1)
        /\ pc = "TopoComputationTime" =>
              \A l \in DLinks(UG) : Cardinality(RepLinkConstrs \cap LinkOrbit(l)) = 1

\* the representative links are chosen on a graph with hosts whose links fall
\* into several orbits, some of several links
C14_Witness ==
    /\ pc = "TopoComputationTime"
    /\ HostNodes(UG) # {}
    /\ Cardinality({ LinkOrbit(l) : l \in DLinks(UG) }) > 1
    /\ \E l \in DLinks(UG) : Cardinality(LinkOrbit(l)) > 1
    /\ Cardinality(RepLinkConstrs) < Cardinality(DLinks(UG))

\* a link that must carry nothing of commodity sd: into a node that cannot
\* route and is not the destination, into the source, or out of the destination
ZeroFlowLink(G, l, sd) ==
    \/ l[2] \in NonRouteNodes(G) \ { sd[2] }
    \/ l[2] = sd[1]
    \/ l[1] = sd[2]

\* routing R records no flow of repsd on such a link
NoZeroFlowLinkUsed(R, repsd) ==
    \A l \in DLinks(StoredUG) : ZeroFlowLink(StoredUG, l, repsd) => repsd \notin DOMAIN R[l]

\* the assignment that gives repsd the flows f and the other representative
\* commodities none
OnlyFlowsOf(repsd, f) ==
    [r \in RepCommodities |->
        IF r = repsd THEN f ELSE [l \in RepCommFlowLinks[r] |-> 0]]

\* C15: in the routing rebuilt from flows that meet the constraints of
\* setAdditionalFlowConstraint, no directed link (i, j), representative of its
\* flow-link class or not, has positive flow of a representative commodity
\* (s, d) where j cannot route and is not d, where j = s, or where i = d; so it
\* is in the OptimalRouting file.
C15_ZeroFlowLinksUnused ==
    /\ pc = "optimize" =>
          \A repsd \in RepCommodities : \A f \in FlowBoxOf(repsd) :
             AdditionalFlowOf(repsd, f) =>
                 NoZeroFlowLinkUsed(BuildRouting(OnlyFlowsOf(repsd, f)), repsd)
    /\ Exists(outFiles, "OptimalRouting") =>
          \A repsd \in StoredRepCommodities :
             NoZeroFlowLinkUsed(outFiles["OptimalRouting"], repsd)

\* OptimalRouting is written for a graph in which a link that must carry
\* nothing of a representative commodity is not the representative of its
\* flow-link class, and the commodity has flow elsewhere
C15_Witness ==
    /\ Exists(outFiles, "OptimalRouting")
    /\ \E repsd \in StoredRepCommodities : \E l \in DLinks(StoredUG) :
          /\ ZeroFlowLink(StoredUG, l, repsd)
          /\ flowLinkMapFile[repsd][l] # l
          /\ \E k \in DLinks(StoredUG) : repsd \in DOMAIN outFiles["OptimalRouting"][k]

\* every flow that routing R records is positive and within the capacity of
\* its own link
RecordedWithinCapacity(R) ==
    \A l \in DLinks(StoredUG) : \A repsd \in DOMAIN R[l] :
        /\ R[l][repsd] > 0
        /\ R[l][repsd] <= Scale * Capacity(StoredUG, l)

\* C16: every flow recorded in the routing that saveOptimalRouting builds,
\* for whatever values the variables take within their bounds, is strictly
\* positive and at most the capacity of the link it is recorded on, also on a
\* link whose variable got its upper bound from another link, the
\* representative of its flow-link class; so it is in the OptimalRouting file.
C16_FlowWithinCapacity ==
    /\ pc = "optimize" =>
          \A repsd \in RepCommodities : \A f \in FlowBoxOf(repsd) :
             RecordedWithinCapacity(BuildRouting(OnlyFlowsOf(repsd, f)))
    /\ Exists(outFiles, "OptimalRouting") =>
          RecordedWithinCapacity(outFiles["OptimalRouting"])

\* OptimalRouting is written and records flow on a link that is not the
\* representative of its flow-link class
C16_Witness ==
    /\ Exists(outFiles, "OptimalRouting")
    /\ \E l \in DLinks(StoredUG) : \E repsd \in DOMAIN outFiles["OptimalRouting"][l] :
          flowLinkMapFile[repsd][l] # l

\* C17: on the ring of 4 nodes with one server per node and capacity 1, which
\* has 12 commodities and an automorphism group of order 8,
\* findRepresentativeCommodities stores at most 3 representative commodities.
C17_Ring4Representatives ==
    (StageDone("findRepresentativeCommodities") /\ StoredUG = generateRing(4)) =>
        /\ Cardinality(Commodities(StoredUG)) = 12
        /\ Cardinality(AutGroup(StoredUG)) = 8
        /\ Cardinality(StoredRepCommodities) <= 3

\* the stage has completed on the ring of 4 nodes, from two generators
C17_Witness ==
    /\ pc = "findRepresentativeCommodityFlowLinks"
    /\ UG = generateRing(4)
    /\ Len(Autgen) = 2
    /\ StageDone("findRepresentativeCommodities")
    /\ RepCommodities = StoredRepCommodities
    /\ Cardinality(RepCommodities) = 2


\* C19: a call of makePrecomputationDirectory or makeOutputDirectory while
\* HCONST['rootdir'] is None ends at once in an AssertionError, and no
\* directory and no file has been made by it.
C19_UnconfiguredRootFails ==
    [][(/\ pc \in { "makePrecomputationDirectory", "makeOutputDirectory" }
        /\ HCONST["rootdir"] = NoPath)
           => /\ pc' = "crashed"
              /\ error' = "AssertionError"
              /\ dirs' = dirs
              /\ pre' = pre /\ out' = out /\ post' = post]_vars

C19_Witness ==
    /\ pc = "crashed"
    /\ error = "AssertionError"
    /\ HCONST["rootdir"] = NoPath
    /\ dirs = {}


\* C18: on the complete graph on 4 nodes with one server per node and
\* capacity 1, from generators of the whole symmetric group,
\* findRepresentativeCommodities stores exactly 1 representative commodity.
C18_CliqueOneRepresentative ==
    (StageDone("findRepresentativeCommodities") /\ StoredUG = generateClique(4)) =>
        /\ Cardinality(AutGroup(StoredUG)) = 24
        /\ Generated(StoredGens, { Identity(4) }) = AutGroup(StoredUG)
        /\ Cardinality(StoredRepCommodities) = 1

\* the stage has completed on the complete graph, and the one group holds all
\* the 12 commodities
C18_Witness ==
    /\ pc = "findRepresentativeCommodityFlowLinks"
    /\ UG = generateClique(4)
    /\ StageDone("findRepresentativeCommodities")
    /\ RepCommodities = StoredRepCommodities
    /\ \E r \in RepCommodities : Cardinality(commGroup[r]) = 12


\* the stored class of a flow-link representative of a representative
\* commodity: the directed links that the stored map takes to it
FlowLinkClass(repsd, l) ==
    { k \in DOMAIN flowLinkMapFile[repsd] : flowLinkMapFile[repsd][k] = l }

\* C20: every representative is the minimum of its class in the sorted order:
\* each stored representative commodity is the smallest commodity of its stored
\* group and of its orbit under Autgen, each stored representative auxiliary
\* index the smallest of its stored group and of its orbit, and each stored
\* flow-link representative of a representative commodity the smallest
\* directed link of its class.
C20_RepresentativesAreMinima ==
    /\ StageDone("findRepresentativeCommodities") =>
          \A r \in StoredRepCommodities :
              /\ r = MinTuple(commGroup[r])
              /\ r = MinTuple(Generated(StoredGens, { r }))
    /\ StageDone("findRepresentativeAuxs") =>
          \A r \in StoredRepAuxiliarys :
              /\ r = MinTuple(auxGroup[r])
              /\ r = MinTuple(Generated(StoredGens, { r }))
    /\ StageDone("findRepresentativeCommodityFlowLinks") =>
          \A repsd \in DOMAIN stageData["findRepresentativeCommodityFlowLinks"] :
              \A l \in stageData["findRepresentativeCommodityFlowLinks"][repsd] :
                  /\ l \in FlowLinkClass(repsd, l)
                  /\ l = MinTuple(FlowLinkClass(repsd, l))

\* the three reductions have completed, each with a class of several members
C20_Witness ==
    /\ pc = "computeAuxReverseMap"
    /\ StageDone("findRepresentativeAuxs")
    /\ \E r \in StoredRepCommodities : Cardinality(commGroup[r]) > 1
    /\ \E r \in StoredRepAuxiliarys : Cardinality(auxGroup[r]) > 1
    /\ \E repsd \in DOMAIN RepCommFlowLinks : \E l \in RepCommFlowLinks[repsd] :
          Cardinality(FlowLinkClass(repsd, l)) > 1


\* the generators of Autgen that fix both ends of the commodity sd
EndFixingGens(sd) == { g \in Range(Autgen) : g[sd[1]] = sd[1] /\ g[sd[2]] = sd[2] }

\* the links that compositions of the end-fixing generators of sd reach from r
EndFixingOrbit(sd, r) == Generated(EndFixingGens(sd), { r })

\* C21: the flow-link traversal of a representative commodity (s, d) applies
\* only generators g with g[s] = s and g[d] = d: while it runs, every link it
\* has put on the to-visit set or visited, and every link its flowlinkmap
\* takes to a representative r, is reached from r by a composition of those
\* generators; the flowlinkmap it stores is defined on every directed link,
\* takes every flow-link representative to itself, and takes a link to r only
\* if a composition of those generators takes r to the link.
C21_FlowLinksByEndFixing ==
    /\ pc \in { "fl_for", "fl_while" } =>
          /\ \A l \in tovisit \cup visited : \E r \in reps : l \in EndFixingOrbit(task, r)
          /\ \A l \in DOMAIN flowlinkmap :
                /\ flowlinkmap[l] \in reps
                /\ l \in EndFixingOrbit(task, flowlinkmap[l])
    /\ \A repsd \in DOMAIN flowLinkMapFile :
          /\ DOMAIN flowLinkMapFile[repsd] = DLinks(UG)
          /\ repsd \in DOMAIN RepCommFlowLinks =>
                \A r \in RepCommFlowLinks[repsd] : flowLinkMapFile[repsd][r] = r
          /\ \A l \in DLinks(UG) : l \in EndFixingOrbit(repsd, flowLinkMapFile[repsd][l])

\* the traversals have completed; for some representative commodity some
\* generators fix both ends and others do not, and its map takes a link to
\* a representative other than the link
C21_Witness ==
    /\ pc = "findRepresentativeAuxs"
    /\ \E repsd \in DOMAIN flowLinkMapFile :
          /\ EndFixingGens(repsd) # {}
          /\ EndFixingGens(repsd) # Range(Autgen)
          /\ \E l \in DLinks(UG) : flowLinkMapFile[repsd][l] # l


RecordedFlow(link, sd) ==
    LET repsd == CHOOSE r \in Topo.RepCommodities : sd \in commGroup[r]
        alink == << mapRev[sd][link[1]], mapRev[sd][link[2]] >>
    IN  IF repsd \in DOMAIN Route[alink] THEN Route[alink][repsd] ELSE 0

\* C23: in findMaxLinkLoad for a link, every commodity of Commodities has
\* exactly one term in the objective, no commodity is left out or counted
\* twice, and the coefficient of the term is the flow recorded in the routing
\* for the representative of the commodity on the link that its stored
\* reverse map makes of the link, zero when no flow is recorded: the
\* objective value is the largest value of the sum of these terms.
C23_OneTermPerCommodity ==
    pc \in { "verifyAllLinkLoad", "ver_max" } =>
        /\ \A sd \in Commodities(Topo.UG) :
              Cardinality({ t \in GroupedCommodities : t[2] = sd }) = 1
        /\ \A link \in DLinks(Topo.UG) : Chargeable(link) =>
              /\ \A t \in GroupedCommodities :
                    LoadCoefficient(link, t[1], t[2]) = RecordedFlow(link, t[2])
              /\ findMaxLinkLoad(link) =
                    Max({ Sum([sd \in Commodities(Topo.UG) |->
                                  p[sd] * RecordedFlow(link, sd)],
                              Commodities(Topo.UG)) : p \in HoseMatrices })

\* the link problems have been solved, and on some link a commodity other
\* than its representative has a term with a positive coefficient read at
\* another link
C23_Witness ==
    /\ pc = "ver_max"
    /\ \E link \in DLinks(Topo.UG) : \E sd \in Commodities(Topo.UG) \ Topo.RepCommodities :
          /\ RecordedFlow(link, sd) > 0
          /\ applyGenerator(link, mapRev[sd]) # link
          /\ linkload[link][1] > 0


\* C24: the set RepLinkConstrs that findRepresentativeLinkConstrs computes is
\* the same for every order in which the encodeLinkConstraint tasks complete:
\* the step that computes it has one outcome, the link taken from a class
\* being the same whichever of the outcomes of the pool and of links.pop()
\* is met.
C24_RepLinkConstrsOrderFree ==
    [][(/\ pc = "findRepresentativeLinkConstrs"
        /\ ~ Exists(stageData, "findRepresentativeLinkConstrs"))
           => \A replinks \in PoppedLinks : RepLinkConstrs' = replinks]_vars


\* the orbit of x under the generators that are stored
StoredOrbit(x) == Generated(StoredGens, { x })

\* C25: the results of the orbit reduction are the same for every order in
\* which the members of the to-visit set are popped, being determined by the
\* graph and the set of generators alone: the representative commodities are
\* the least members of the orbits of commodities and the stored group of
\* each is its orbit; the representative auxiliary indices are the least
\* members of the orbits of auxiliary indices and the stored group of each is
\* its orbit; and the flowlinkmap of every representative commodity takes
\* every directed link to the least link that the generators fixing both
\* ends of the commodity reach from it, RepCommFlowLinks holding these links.
C25_ReductionReproducible ==
    /\ StageDone("findRepresentativeCommodities") =>
          /\ StoredRepCommodities = { MinTuple(StoredOrbit(sd)) : sd \in Commodities(StoredUG) }
          /\ DOMAIN commGroup = StoredRepCommodities
          /\ \A r \in StoredRepCommodities : commGroup[r] = StoredOrbit(r)
    /\ StageDone("findRepresentativeCommodityFlowLinks") =>
          /\ stageData["findRepresentativeCommodityFlowLinks"] = MergedFlowLinks
          /\ DOMAIN flowLinkMapFile = StoredRepCommodities
          /\ \A repsd \in StoredRepCommodities :
                flowLinkMapFile[repsd] =
                    [l \in DLinks(StoredUG) |->
                        MinTuple(Generated(StabilizerGens(repsd), { l }))]
    /\ StageDone("findRepresentativeAuxs") =>
          /\ StoredRepAuxiliarys = { MinTuple(StoredOrbit(a)) : a \in AuxIndice(StoredUG) }
          /\ DOMAIN auxGroup = StoredRepAuxiliarys
          /\ \A r \in StoredRepAuxiliarys : auxGroup[r] = StoredOrbit(r)

\* the three reductions have completed, each after a traversal in which the
\* to-visit set has held several members at a time
C25_Witness ==
    /\ pc = "computeAuxReverseMap"
    /\ StageDone("findRepresentativeAuxs")
    /\ Len(Autgen) > 1
    /\ \E r \in StoredRepCommodities : Cardinality(commGroup[r]) > 2
    /\ \E r \in StoredRepAuxiliarys : Cardinality(auxGroup[r]) > 2
    /\ \E repsd \in DOMAIN flowLinkMapFile : \E l \in DLinks(UG) :
          flowLinkMapFile[repsd][l] # l


\* C26: every orbit traversal terminates: in findRepresentativeCommodities,
\* in findRepresentativeCommodityFlowLinksByCommodity and in
\* findRepresentativeAuxs the while loop of every seed comes to an empty
\* to-visit set, and the for loop over the candidates ends, so that each of
\* the three stages completes.
C26_TraversalsTerminate ==
    /\ (pc = "rc_while") ~> (pc = "rc_for" /\ tovisit = {})
    /\ (pc = "rc_for") ~> (pc = "findRepresentativeCommodityFlowLinks")
    /\ (pc = "fl_while") ~> (pc = "fl_for" /\ tovisit = {})
    /\ (pc = "fl_for") ~> (pc = "fl_pool")
    /\ (pc = "fl_pool") ~> (pc = "findRepresentativeAuxs")
    /\ (pc = "ra_while") ~> (pc = "ra_for" /\ tovisit = {})
    /\ (pc = "ra_for") ~> (pc = "computeAuxReverseMap")

\* the to-visit set of the commodity traversal holds one commodity under two
\* parents, and a commodity that is on it has not been marked visited
C26_Witness ==
    /\ pc = "rc_while"
    /\ \E e1, e2 \in tovisit : e1 # e2 /\ e1[1] = e2[1]
    /\ \E e \in tovisit : e[1] \notin visited


\* C27: at every point of a run, and of a run that follows an interrupted
\* one, where ComputedThroughput exists OptimalRouting exists, so that a run
\* that skips the optimization finds an optimal routing to load.
C27_ThroughputImpliesRouting ==
    Exists(outFiles, "ComputedThroughput") => Exists(outFiles, "OptimalRouting")


\* C28: wherever the checkpoint of an orbit stage exists, also after an
\* interrupted run, the files that the stage writes for its objects exist:
\* with the checkpoint of findRepresentativeCommodities a group file of every
\* representative commodity and a forward and a reverse map of every
\* commodity, with the checkpoint of findRepresentativeCommodityFlowLinks a
\* flow-link map of every representative commodity, and with the checkpoint
\* of findRepresentativeAuxs a group file of every representative auxiliary
\* index.
C28_CheckpointImpliesArtifacts ==
    /\ StageDone("findRepresentativeCommodities") =>
          /\ \A r \in StoredRepCommodities : Exists(commGroup, r)
          /\ StageDone("setUGraph") =>
                \A sd \in Commodities(StoredUG) : Exists(mapFwd, sd) /\ Exists(mapRev, sd)
    /\ StageDone("findRepresentativeCommodityFlowLinks") =>
          /\ \A r \in DOMAIN stageData["findRepresentativeCommodityFlowLinks"] :
                Exists(flowLinkMapFile, r)
          /\ StageDone("findRepresentativeCommodities") =>
                \A r \in StoredRepCommodities : Exists(flowLinkMapFile, r)
    /\ StageDone("findRepresentativeAuxs") =>
          \A r \in StoredRepAuxiliarys : Exists(auxGroup, r)

\* a run after one that was interrupted inside findRepresentativeAuxs: the
\* checkpoints of the two stages before it are there and have been loaded,
\* that of findRepresentativeAuxs is not, and some of its group files are
C28_Witness ==
    /\ run = 2
    /\ pc = "ra_for"
    /\ ci = 1
    /\ StageDone("findRepresentativeCommodities")
    /\ StageDone("findRepresentativeCommodityFlowLinks")
    /\ ~ StageDone("findRepresentativeAuxs")
    /\ DOMAIN auxGroup # {}
    /\ stageWrites["findRepresentativeCommodities"] = 1


\* the two files groupSolutionAtNode writes for a node
NodeArtifacts(node) ==
    /\ Exists(splitFiles, << "SplitGroupsAtNodes", node >>)
    /\ Exists(splitFiles, << "CountRouteInfo", node >>)

\* C29: a node is off the stored RemainedNodes only when its SplitGroupsAtNodes
\* and CountRouteInfo files are written; a run, interrupted runs before it or
\* not, works only on nodes that are in the stored RemainedNodes; and when
\* groupSolution has finished the stored RemainedNodes is empty and every
\* selected node has both files.
C29_RemainedNodesResumable ==
    /\ Exists(outFiles, "RemainedNodes") =>
          \A node \in outFiles["SelectedNodes"] \ outFiles["RemainedNodes"] :
              NodeArtifacts(node)
    /\ (pc = "grp_pool" /\ Exists(outFiles, "RemainedNodes")) =>
          (tovisit \cup visited) \subseteq outFiles["RemainedNodes"]
    /\ pc = "done" =>
          /\ Exists(outFiles, "RemainedNodes")
          /\ outFiles["RemainedNodes"] = {}
          /\ \A node \in outFiles["SelectedNodes"] : NodeArtifacts(node)

\* the second run works on what the first run, stopped while a task was
\* between its two files, has left in RemainedNodes
C29_Witness ==
    /\ run = 2 /\ pc = "grp_pool"
    /\ Exists(outFiles, "RemainedNodes")
    /\ outFiles["RemainedNodes"] \notin { {}, outFiles["SelectedNodes"] }
    /\ pending = outFiles["RemainedNodes"]
    /\ tovisit # {}
    /\ \E node \in pending \ (tovisit \cup visited) :
          /\ Exists(splitFiles, << "SplitGroupsAtNodes", node >>)
          /\ ~ Exists(splitFiles, << "CountRouteInfo", node >>)


\* encodeFlows and findMaxLinkLoad can both read the routing for sd on link:
\* the reverse-mapped link has a flow link, and both links are in the routing
ExpandsAt(link, repsd, sd) ==
    /\ ReverseLink(link, sd) \in DOMAIN flowLinkMapFile[repsd]
    /\ ReverseLink(link, sd) \in DOMAIN Route
    /\ flowLinkMapFile[repsd][ReverseLink(link, sd)] \in DOMAIN Route

\* the entries of encodeFlows(node, repsd, sd) for one local link
LinkTriples(link, repsd, sd) ==
    { t \in encodeFlows(link[1], repsd, sd) : t[1] = link }

\* C30: with the routing loaded, for every node n, neighbour h and commodity sd
\* of representative r, encodeFlows records an entry for the link (n, h) exactly
\* when findMaxLinkLoad gives sd a nonzero coefficient on (n, h), and the flow
\* of the entry is that coefficient.
C30_GroupingExpandsAsVerification ==
    (pc \in { "verifyAllLinkLoad", "groupSolution", "grp_pool" }) =>
        \A link \in DLinks(Topo.UG) : \A t \in GroupedCommodities :
            (Encodable(link[1], t[1], t[2]) /\ ExpandsAt(link, t[1], t[2])) =>
                /\ (LinkTriples(link, t[1], t[2]) # {})
                      <=> (LoadCoefficient(link, t[1], t[2]) # 0)
                /\ \A e \in LinkTriples(link, t[1], t[2]) :
                      e[3] = LoadCoefficient(link, t[1], t[2])

\* the routing is loaded, and a commodity that is not its representative has
\* an entry on a link that is not the flow link its flow is read from, next to
\* a link on which it has none
C30_Witness ==
    /\ pc = "grp_pool"
    /\ \E link \in DLinks(Topo.UG) : \E t \in GroupedCommodities :
          /\ t[1] # t[2]
          /\ Encodable(link[1], t[1], t[2]) /\ ExpandsAt(link, t[1], t[2])
          /\ \E e \in LinkTriples(link, t[1], t[2]) :
                /\ e[2] # ReverseLink(link, t[2])
                /\ e[3] > 0
          /\ \E other \in DLinks(Topo.UG) :
                /\ other[1] = link[1]
                /\ ExpandsAt(other, t[1], t[2])
                /\ LinkTriples(other, t[1], t[2]) = {}


=============================================================================
